---- MODULE Spec2Model ----
(***************************************************************************)
(* A model of the RISC-V bootloader of library/rustsbi: the legacy         *)
(* virtio-blk driver (virtio/blk/device.rs, virtio/queue.rs) running       *)
(* against a virtio-blk device, the ELF64 segment loader                   *)
(* (kernel/elf_parser.rs) and the boot flow (examples/minimal_boot.rs,     *)
(* kernel/loader.rs).                                                      *)
(*                                                                         *)
(* Arithmetic follows the release profile of the build: u16 and u64        *)
(* additions and subtractions wrap.                                        *)
(*                                                                         *)
(* TLC's integers are 32 bits wide, so a physical address a is written as  *)
(* a - 0x80000000, its offset from the base of DRAM: 0x80070000 is 458752  *)
(* and an address below DRAM is negative.                                  *)
(***************************************************************************)
EXTENDS Integers, Sequences, FiniteSets, TLC

VARIABLES
    \* ---- VirtioBlk::read_block / read_block_real (device.rs) ----
    pc,               \* position of the driver inside read_block
    block_id,         \* argument of the current read_block call
    buffer,           \* the caller's 512-byte buffer (abstract sector content)
    result,           \* what the last read_block call returned
    retry_count,      \* read_block: retry_count
    attempt,          \* read_block_real: loop variable of the poll loop
    valid_attempts,   \* read_block_real: valid_attempts
    ring_retry_count, \* read_block_real: ring_retry_count
    use_real_io,      \* VirtioBlk.use_real_io
    \* ---- Virtqueue (queue.rs) ----
    desc,             \* descriptor table
    avail,            \* available ring (driver writes)
    used,             \* used ring (device writes)
    free_head,        \* Virtqueue.free_head
    num_free,         \* Virtqueue.num_free
    last_used_idx,    \* Virtqueue.last_used_idx
    \* ---- memory shared with the device, MMIO registers ----
    req,              \* VirtioBlkReq at req_addr
    dma,              \* the 513-byte device-writable buffer at buffer_addr
    isr,              \* ISR_STATUS register (offset 0x60), bit 0
    queue_notify,     \* last value written to QUEUE_NOTIFY, -1 before any
    \* ---- the virtio-blk device ----
    isr_sticky,       \* whether a read of ISR_STATUS leaves the bit set
    dev_avail_idx,    \* the device's shadow of avail.idx
    inflight,         \* requests fetched and not yet completed
    \* ---- history of the current read_block call ----
    log,              \* memory, fence and MMIO events of the driver, in program order
    calls,            \* read_block calls made so far
    submitted,        \* available-ring entries published during this call
    ioerrs,           \* completions with VIRTIO_BLK_S_IOERR during this call, while
                      \* script = "failing"
    script,           \* "failing" while every completion of this call had status
                      \* IOERR, "ok" once one with status OK has followed them,
                      \* "off" after any other completion
    timeouts,         \* attempts of this call that ended in Timeout
    \* ---- ElfParser::load_segments with memory::load_segment (elf_parser.rs) ----
    elf_len,          \* self.data.len(), the bytes_loaded of the loader
    e_phnum,          \* ehdr.e_phnum
    ph_index,         \* the loop variable i of load_segments
    phdr,             \* the program header read last
    mem,              \* memory at the load addresses
    elf_result,       \* "running", or how load_segments ended
    \* ---- main (minimal_boot.rs) and KernelLoader (loader.rs) ----
    bpc,              \* position of main
    image,            \* the disk: what each sector holds
    bdma,             \* what the DMA buffer of the block driver holds
    scan_sector,      \* detect_elf_start_sector: loop variable
    start_sector,     \* load_kernel_raw: start_sector
    sector_offset,    \* load_kernel_raw: loop variable
    staging,          \* the staging buffer at SAFE_BUFFER_BASE, sector by sector
    entry_point,      \* main: entry_point
    jump_target,      \* the entry handed to jump_to_kernel
    segments,         \* main: how parser.load_segments ended, once called
    hart,             \* a0, a1 and the program counter of hart 0
    diag,             \* the last diagnostic printed
    \* ---- Virtqueue on its own (queue.rs) ----
    new_args,         \* the arguments of Virtqueue::new
    new_result,       \* what Virtqueue::new returned
    vq,               \* the Virtqueue: desc, queue_size, free_head, num_free,
                      \* last_used_idx
    vq_used,          \* the used ring of that queue, written by the device
    chains,           \* the chains alloc_desc_chain returned, not freed since
    unconsumed,       \* completions published by the device and not yet
                      \* consumed by the driver
    last_call,        \* the last alloc_desc_chain or free_desc_chain call:
                      \* its argument, what it returned, the queue before it
    \* ---- VirtioBlk::probe_all_devices (device.rs) ----
    slots,            \* what lies at each candidate base: magic, device id,
                      \* and whether initialize() succeeds there
    probe_pc,         \* position of probe_all_devices
    probe_i,          \* its loop variable i
    found_devices,    \* found_devices[0 .. found_count]
    init_calls,       \* the candidates initialize() was called on, in order
    adopted,          \* the candidate of the device returned, {} for None
    \* ---- VirtioBlk::initialize (device.rs) ----
    ipc,              \* position of initialize
    dev,              \* how the device answers: the bits of STATUS it keeps,
                      \* QUEUE_NUM_MAX, and what QUEUE_PFN reads back
    status_reg,       \* the STATUS register (offset 0x70)
    mmio,             \* the register accesses of initialize, in program order
    init_result,      \* what initialize returned
    initialized,      \* VirtioBlk.initialized
    queue_ready,      \* VirtioBlk.queue_ready, set with the virtqueue
    \* ---- VirtioError (error.rs) ----
    classified,       \* errors classified so far, with the two answers
    \* ---- ElfParser::new and load_segments on any byte slice ----
    elf_image,        \* the header fields and program headers of the slice
    parse_pc,         \* "new", "load" or "done"
    parse_result,     \* what ElfParser::new or load_segments returned
    accesses,         \* the program headers read and the slices handed to
                      \* the callback, in program order
    \* ---- trap_handler (trap/handler.rs) ----
    trap_pc,          \* "trapped", "handled", "resumed" or "shutdown"
    trap_regs,        \* mcause, mepc, a0, a1, a6, a7 at the trap
    trap_done,        \* what trap_handler did: the path taken, the function
                      \* that ran, the a0/a1 it set, the value it returned
    s_hart            \* pc, a0 and a1 of the hart once it has resumed

blkVars ==
    <<pc, block_id, buffer, result, retry_count, attempt, valid_attempts,
      ring_retry_count, use_real_io, desc, avail, used, free_head, num_free,
      last_used_idx, req, dma, isr, queue_notify, isr_sticky, dev_avail_idx,
      inflight, log, calls, submitted, ioerrs, script, timeouts>>

elfVars == <<elf_len, e_phnum, ph_index, phdr, mem, elf_result>>

bootVars ==
    <<bpc, image, bdma, scan_sector, start_sector, sector_offset, staging,
      entry_point, jump_target, segments, hart, diag>>

queueVars ==
    <<new_args, new_result, vq, vq_used, chains, unconsumed, last_call>>

probeVars == <<slots, probe_pc, probe_i, found_devices, init_calls, adopted>>

initVars ==
    <<ipc, dev, status_reg, mmio, init_result, initialized, queue_ready>>

errVars == <<classified>>

parseVars == <<elf_image, parse_pc, parse_result, accesses>>

trapVars == <<trap_pc, trap_regs, trap_done, s_hart>>

\* Device discovery, initialization, the classification of errors, the
\* parser on its own and the trap handler.
setupVars == <<probeVars, initVars, errVars, parseVars, trapVars>>

\* What the block driver and the device leave alone.
notBlkVars == <<elfVars, bootVars, queueVars, setupVars>>

\* What load_segments leaves alone.
notElfVars == <<blkVars, bootVars, queueVars, setupVars>>

\* What main and the kernel loader leave alone: the driver is taken by the
\* outcomes of read_block, load_segments by how it ends.
notBootVars == <<blkVars, elfVars, queueVars, setupVars>>

\* What the operations of a Virtqueue on its own leave alone.
notQueueVars == <<blkVars, elfVars, bootVars, setupVars>>

\* What probe_all_devices leaves alone.
notProbeVars ==
    <<blkVars, elfVars, bootVars, queueVars, initVars, errVars, parseVars,
      trapVars>>

\* What initialize leaves alone.
notInitVars ==
    <<blkVars, elfVars, bootVars, queueVars, probeVars, errVars, parseVars,
      trapVars>>

\* What the classification of an error leaves alone.
notErrVars ==
    <<blkVars, elfVars, bootVars, queueVars, probeVars, initVars, parseVars,
      trapVars>>

\* What the parser on its own leaves alone.
notParseVars ==
    <<blkVars, elfVars, bootVars, queueVars, probeVars, initVars, errVars,
      trapVars>>

\* What the trap handler leaves alone.
notTrapVars ==
    <<blkVars, elfVars, bootVars, queueVars, probeVars, initVars, errVars,
      parseVars>>

vars == <<blkVars, elfVars, bootVars, queueVars, setupVars>>

(***************************************************************************)
(* Bounds of the model.  The loop budgets of the driver are scaled down;   *)
(* the source values are given with each.                                  *)
(***************************************************************************)
MaxCalls == 1          \* read_block calls per behaviour
NumSectors == 1        \* sectors of the modelled disk (config.capacity)
MaxInFlight == 1       \* requests the device holds between fetch and completion
MAX_RETRIES == 2       \* device.rs:445 (100 in the source)
max_attempts == 3      \* device.rs:553 (5000 in the source)
NoProgressLimit == 1   \* device.rs:641 (2000 in the source)
StaleIsrLimit == 2     \* device.rs:631 (1000 in the source)
MAX_RING_RETRIES == 2  \* device.rs:574 (10 in the source)

(***************************************************************************)
(* Program constants.                                                      *)
(***************************************************************************)
U16 == 65536                  \* width of avail.idx, used.idx, last_used_idx
queue_size == 2               \* device.rs:328
dma_base == 458752            \* 0x80070000, device.rs:479
buffer_addr == 458832         \* 0x80070050, device.rs:481
VIRTQ_DESC_F_NEXT == 1        \* queue.rs:480
VIRTQ_DESC_F_WRITE == 2       \* queue.rs:481
VIRTIO_BLK_T_IN == 0          \* config.rs:45
VIRTIO_BLK_S_OK == 0          \* config.rs:50
VIRTIO_BLK_S_IOERR == 1       \* config.rs:51
VIRTIO_BLK_S_UNSUPP == 2      \* config.rs:52
SECTOR_LEN == 512             \* device.rs:435
head == 0                     \* device.rs:473

req_addr == dma_base + 64     \* device.rs:480

capacity == NumSectors        \* VirtioBlkConfig.capacity after read_configuration_simple

\* The backing store: sector s holds content s + 1; content 0 is the all-zero page.
disk == [s \in 0..(capacity - 1) |-> s + 1]

Add16(a, b) == (a + b) % U16
Sub16(a, b) == (a - b + U16) % U16

(***************************************************************************)
(* Virtqueue (queue.rs)                                                    *)
(***************************************************************************)

\* Virtqueue::new, the descriptor table it leaves behind.
NewDesc ==
    [i \in 0..(queue_size - 1) |->
        [addr |-> 0, len |-> 0, flags |-> 0,
         next |-> IF i = queue_size - 1 THEN 0 ELSE i + 1]]

\* Virtqueue::set_descriptor: Err(InvalidParam) when get_descriptor_ptr refuses the index.
set_descriptor(d, index, addr, len, flags, next) ==
    IF index >= queue_size
    THEN [ok |-> FALSE, desc |-> d]
    ELSE [ok |-> TRUE,
          desc |-> [d EXCEPT ![index] =
                       [addr |-> addr, len |-> len, flags |-> flags, next |-> next]]]

\* The events of one set_descriptor call: the descriptor write, then the Release fence.
SetDescriptorEvents == <<"desc", "rel">>

\* Virtqueue::add_to_avail: ring slot, SeqCst fence, idx + 1 (wrapping), SeqCst fence.
add_to_avail(a, desc_index) ==
    [flags |-> a.flags,
     idx |-> Add16(a.idx, 1),
     ring |-> [a.ring EXCEPT ![a.idx % queue_size] = desc_index]]

AddToAvailEvents == <<"ring", "sc", "idx", "sc">>

(***************************************************************************)
(* read_block_real, the part up to the notification (device.rs:470-554)    *)
(***************************************************************************)

\* The request header writes and the Release fence after them (device.rs:484-493).
RequestHeaderEvents == <<"hdr", "rel">>

\* A driver that takes the two descriptors from the free count and never gives
\* them back.
ChainNumFreeLeaking(nf) == nf - 2

\* A driver that writes QUEUE_NOTIFY before the fence iorw,iorw.
NotifyBeforeFenceEvents == <<"acq", "acq", "rel", "sc", "notify", "full", "sc", "sc">>

\* After add_to_avail: get_avail_idx, get_used_idx (Acquire fences), the Release
\* fence, architecture_specific_barrier (fence iorw,iorw), the SeqCst fence, the
\* QUEUE_NOTIFY write and the two SeqCst fences after it (device.rs:518-551).
NotifyEvents == <<"acq", "acq", "rel", "full", "sc", "notify", "sc", "sc">>

\* The descriptors of the chain are the fixed indices head and head + 1: the
\* allocator is not used, so num_free is left as it is (device.rs:472-476).
ChainNumFree(nf) == nf

(***************************************************************************)
(* The state after VirtioBlk::initialize has succeeded.  IdxStart lets the *)
(* ring indices start just below the 16-bit wrap, the state the driver is  *)
(* in after that many completed reads of sector 0.                         *)
(***************************************************************************)
IdxStart == {0, U16 - 2}

\* The driver never initializes the buffer at buffer_addr: before the first
\* completion it holds what the RAM held, the zero page or any other content.
InitialDma == {0, disk[0]}

InitBlk ==
    /\ pc = "idle"
    /\ block_id = 0
    /\ buffer = 0
    /\ result = "none"
    /\ retry_count = 0
    /\ attempt = 0
    /\ valid_attempts = 0
    /\ ring_retry_count = 0
    /\ free_head = 0
    /\ num_free = queue_size
    /\ queue_notify \in {-1}
    /\ inflight = <<>>
    /\ log = <<>>
    /\ calls = 0
    /\ submitted = 0
    /\ ioerrs = 0
    /\ script = "failing"
    /\ timeouts = 0
    /\ isr_sticky \in BOOLEAN
    /\ \E b \in IdxStart :
        /\ avail = [flags |-> 0, idx |-> b, ring |-> [i \in 0..(queue_size - 1) |-> 0]]
        /\ used = [flags |-> 0, idx |-> b,
                   ring |-> [i \in 0..(queue_size - 1) |->
                                [id |-> 0, len |-> IF b = 0 THEN 0 ELSE SECTOR_LEN + 1,
                                 pub |-> 0]]]
        /\ last_used_idx = b
        /\ dev_avail_idx = b
        /\ use_real_io = (b # 0)
        /\ isr = IF b # 0 /\ isr_sticky THEN 1 ELSE 0
        /\ IF b = 0
           THEN /\ desc = NewDesc
                /\ req = [type_ |-> 0, reserved |-> 0, sector |-> 0]
                /\ \E c \in InitialDma : dma = [data |-> c, status |-> 0]
           ELSE /\ desc = set_descriptor(
                            set_descriptor(NewDesc, head, req_addr, 16,
                                           VIRTQ_DESC_F_NEXT, head + 1).desc,
                            head + 1, buffer_addr, SECTOR_LEN + 1,
                            VIRTQ_DESC_F_WRITE, 0).desc
                /\ req = [type_ |-> VIRTIO_BLK_T_IN, reserved |-> 0, sector |-> 0]
                /\ dma = [data |-> disk[0], status |-> VIRTIO_BLK_S_OK]

(***************************************************************************)
(* read_block (device.rs:430-467)                                          *)
(***************************************************************************)

BufLens == {SECTOR_LEN, 256}

\* A read_block that allows one retry more than the budget.
RetryBudgetSpentLate(rc) == rc > MAX_RETRIES

\* read_block: the retry budget is spent (device.rs:457).
RetryBudgetSpent(rc) == rc >= MAX_RETRIES

\* read_block, the Err arm of the match (device.rs:453-464): count the retry and
\* either give up with the error of the attempt or start the next attempt.
\* The locals of read_block_real end with the attempt, those of read_block with
\* the call.
AttemptFailed(e) ==
    /\ attempt' = 0
    /\ valid_attempts' = 0
    /\ ring_retry_count' = 0
    /\ IF RetryBudgetSpent(retry_count + 1)
       THEN /\ result' = e
            /\ pc' = "idle"
            /\ retry_count' = 0
       ELSE /\ result' = result
            /\ pc' = "request"
            /\ retry_count' = retry_count + 1

\* read_block, the Ok arm (device.rs:449-452).
AttemptSucceeded ==
    /\ use_real_io' = TRUE
    /\ result' = "Ok"
    /\ pc' = "idle"
    /\ retry_count' = 0
    /\ attempt' = 0
    /\ valid_attempts' = 0
    /\ ring_retry_count' = 0

\* read_block up to the first attempt (device.rs:430-446).  The device is
\* initialized, so initialize() is not entered.
ReadBlock ==
    /\ pc = "idle"
    /\ calls < MaxCalls
    /\ \E s \in 0..capacity, len \in BufLens :
        /\ block_id' = s
        /\ IF len # SECTOR_LEN
           THEN /\ result' = "DmaError"
                /\ pc' = "idle"
           ELSE IF s >= capacity
           THEN /\ result' = "IoError"
                /\ pc' = "idle"
           ELSE /\ result' = "pending"
                /\ pc' = "request"
    /\ buffer' = 0
    /\ retry_count' = 0
    /\ calls' = calls + 1
    /\ log' = <<>>
    /\ submitted' = 0
    /\ ioerrs' = 0
    /\ script' = "failing"
    /\ timeouts' = 0
    /\ UNCHANGED <<attempt, valid_attempts, ring_retry_count, use_real_io, desc,
                   avail, used, free_head, num_free, last_used_idx, req, dma, isr,
                   queue_notify, isr_sticky, dev_avail_idx, inflight>>
    /\ UNCHANGED notBlkVars

(***************************************************************************)
(* read_block_real (device.rs:470-655), one action per stretch of code     *)
(* between two points where the device can be observed.                    *)
(***************************************************************************)

\* Request header and the two descriptors (device.rs:473-507).
WriteRequest ==
    /\ pc = "request"
    /\ req' = [type_ |-> VIRTIO_BLK_T_IN, reserved |-> 0, sector |-> block_id]
    /\ num_free' = ChainNumFree(num_free)
    /\ LET d0 == set_descriptor(desc, head, req_addr, 16, VIRTQ_DESC_F_NEXT, head + 1)
           d1 == set_descriptor(d0.desc, head + 1, buffer_addr, SECTOR_LEN + 1,
                                VIRTQ_DESC_F_WRITE, 0)
       IN  IF ~d0.ok
           THEN /\ desc' = d0.desc
                /\ log' = log \o RequestHeaderEvents
                /\ AttemptFailed("InvalidParam")
           ELSE IF ~d1.ok
           THEN /\ desc' = d1.desc
                /\ log' = log \o RequestHeaderEvents \o SetDescriptorEvents
                /\ AttemptFailed("InvalidParam")
           ELSE /\ desc' = d1.desc
                /\ log' = log \o RequestHeaderEvents \o SetDescriptorEvents
                              \o SetDescriptorEvents
                /\ pc' = "publish"
                /\ UNCHANGED <<retry_count, result, attempt, valid_attempts,
                               ring_retry_count>>
    /\ UNCHANGED <<block_id, buffer, use_real_io, avail, used, free_head, last_used_idx, dma, isr,
                   queue_notify, isr_sticky, dev_avail_idx, inflight, calls,
                   submitted, ioerrs, script, timeouts>>
    /\ UNCHANGED notBlkVars

\* The pub mark of a request the device holds and of a used element is not in
\* memory: it is 1 while the request it answers is the one published last.
\* A new publication makes every earlier one stale.
StaleUsed(u) ==
    [u EXCEPT !.ring = [i \in DOMAIN u.ring |-> [u.ring[i] EXCEPT !.pub = 0]]]

StaleInflight(q) == [i \in 1..Len(q) |-> [q[i] EXCEPT !.pub = 0]]

\* vq.add_to_avail(head) (device.rs:510-515).
Publish ==
    /\ pc = "publish"
    /\ avail' = add_to_avail(avail, head)
    /\ submitted' = submitted + 1
    /\ used' = StaleUsed(used)
    /\ inflight' = StaleInflight(inflight)
    /\ log' = log \o AddToAvailEvents
    /\ pc' = "notify"
    /\ UNCHANGED <<block_id, buffer, result, retry_count, attempt, valid_attempts,
                   ring_retry_count, use_real_io, desc, free_head, num_free,
                   last_used_idx, req, dma, isr, queue_notify, isr_sticky,
                   dev_avail_idx, calls, ioerrs, script, timeouts>>
    /\ UNCHANGED notBlkVars

\* The fences and write_reg(VIRTIO_QUEUE_NOTIFY, self.current_queue_sel)
\* (device.rs:518-554); current_queue_sel is 0 since select_queue(0).
Notify ==
    /\ pc = "notify"
    /\ queue_notify' = 0
    /\ log' = log \o NotifyEvents
    /\ attempt' = 0
    /\ valid_attempts' = 0
    /\ pc' = "poll"
    /\ UNCHANGED <<block_id, buffer, result, retry_count, ring_retry_count,
                   use_real_io, desc, avail, used, free_head, num_free,
                   last_used_idx, req, dma, isr, isr_sticky, dev_avail_idx,
                   inflight, calls, submitted, ioerrs, script, timeouts>>
    /\ UNCHANGED notBlkVars

\* The attempt ends with Err(VirtioError::Timeout) (device.rs:647-654).
AttemptTimedOut ==
    /\ timeouts' = timeouts + 1
    /\ AttemptFailed("Timeout")

\* The end of one iteration of `for attempt in 0..max_attempts` (device.rs:637-645)
\* with va the value of valid_attempts.
EndOfIteration(va) ==
    IF attempt > NoProgressLimit /\ va = 0
    THEN AttemptTimedOut
    ELSE IF attempt + 1 >= max_attempts
    THEN AttemptTimedOut
    ELSE /\ attempt' = attempt + 1
         /\ valid_attempts' = va
         /\ ring_retry_count' = 0
         /\ pc' = "poll"
         /\ UNCHANGED <<retry_count, result, timeouts>>

\* After the used-ring retry loop (device.rs:628-634).
AfterRing ==
    IF valid_attempts + 1 >= StaleIsrLimit
    THEN AttemptTimedOut
    ELSE EndOfIteration(valid_attempts + 1)

\* What a read of ISR_STATUS leaves in the register.
IsrAfterRead == IF isr_sticky THEN isr ELSE 0

\* The read of ISR_STATUS that opens an iteration (device.rs:558-561).
PollIsr ==
    /\ pc = "poll"
    /\ isr' = IsrAfterRead
    /\ IF isr = 1
       THEN /\ pc' = "ack"
            /\ UNCHANGED <<attempt, valid_attempts, ring_retry_count, retry_count,
                           result, timeouts>>
       ELSE EndOfIteration(valid_attempts)
    /\ UNCHANGED <<block_id, buffer, use_real_io, desc, avail, used,
                   free_head, num_free, last_used_idx, req, dma, queue_notify,
                   isr_sticky, dev_avail_idx, inflight, log, calls, submitted,
                   ioerrs, script>>
    /\ UNCHANGED notBlkVars

\* The second read of ISR_STATUS, its value dropped, the delay and the Acquire
\* fence (device.rs:564-573).
AckIsr ==
    /\ pc = "ack"
    /\ isr' = IsrAfterRead
    /\ ring_retry_count' = 0
    /\ pc' = "ring"
    /\ UNCHANGED <<block_id, buffer, result, retry_count, attempt, valid_attempts,
                   use_real_io, desc, avail, used, free_head, num_free,
                   last_used_idx, req, dma, queue_notify, isr_sticky,
                   dev_avail_idx, inflight, log, calls, submitted, ioerrs, script,
                   timeouts>>
    /\ UNCHANGED notBlkVars

\* Whether one of the n used elements from index `from` on names the chain `h`
\* (device.rs:586-590).
UsedNames(u, from, n, h) ==
    \E i \in 0..(n - 1) : u.ring[Add16(from, i) % queue_size].id = h

\* One pass of the used-ring retry loop (device.rs:576-627).  The status byte
\* at buffer_addr + 512 is not read; data_valid is true whatever the buffer holds.
RingCheck ==
    /\ pc = "ring"
    /\ LET current_used_idx == used.idx
           n == Sub16(current_used_idx, last_used_idx)
       IN  IF current_used_idx # last_used_idx
           THEN /\ last_used_idx' = current_used_idx
                /\ IF UsedNames(used, last_used_idx, n, head)
                   THEN /\ buffer' = dma.data
                        /\ AttemptSucceeded
                        /\ UNCHANGED timeouts
                   ELSE /\ AfterRing
                        /\ UNCHANGED <<buffer, use_real_io>>
           ELSE /\ IF ring_retry_count + 1 < MAX_RING_RETRIES
                   THEN /\ ring_retry_count' = ring_retry_count + 1
                        /\ pc' = "ring"
                        /\ UNCHANGED <<attempt, valid_attempts, retry_count, result,
                                       timeouts>>
                   ELSE AfterRing
                /\ UNCHANGED <<buffer, last_used_idx, use_real_io>>
    /\ UNCHANGED <<block_id, desc, avail, used, free_head, num_free, req, dma, isr,
                   queue_notify, isr_sticky, dev_avail_idx, inflight, log, calls,
                   submitted, ioerrs, script>>
    /\ UNCHANGED notBlkVars

(***************************************************************************)
(* The virtio-blk device (legacy split ring).  It takes available entries  *)
(* in order, reads the request header when it takes an entry, and          *)
(* completes each request after any delay with any status byte.  The pub   *)
(* of a request and of its used element is not in memory: it is 1 when the *)
(* device answers the publication made last, 0 when an earlier one.        *)
(***************************************************************************)

StatusBytes == {VIRTIO_BLK_S_OK, VIRTIO_BLK_S_IOERR, VIRTIO_BLK_S_UNSUPP}

DevFetch ==
    /\ dev_avail_idx # avail.idx
    /\ Len(inflight) < MaxInFlight
    /\ LET h == avail.ring[dev_avail_idx % queue_size]
           d0 == desc[h]
       IN  inflight' = Append(inflight,
                              [head |-> h,
                               sector |-> IF d0.addr = req_addr THEN req.sector ELSE 0,
                               data_addr |-> desc[d0.next].addr,
                               pub |-> IF Sub16(avail.idx, dev_avail_idx) = 1 THEN 1 ELSE 0])
    /\ dev_avail_idx' = Add16(dev_avail_idx, 1)
    /\ UNCHANGED <<pc, block_id, buffer, result, retry_count, attempt,
                   valid_attempts, ring_retry_count, use_real_io, desc, avail, used,
                   free_head, num_free, last_used_idx, req, dma, isr, queue_notify,
                   isr_sticky, log, calls, submitted, ioerrs, script, timeouts>>
    /\ UNCHANGED notBlkVars

\* The device writes the sector only when it reports VIRTIO_BLK_S_OK; the status
\* byte is the last byte of the writable buffer.
DevComplete ==
    /\ inflight # <<>>
    /\ \E st \in StatusBytes :
        LET r == Head(inflight)
        IN  /\ dma' = IF r.data_addr # buffer_addr THEN dma
                      ELSE IF st = VIRTIO_BLK_S_OK
                      THEN [data |-> disk[r.sector], status |-> st]
                      ELSE [data |-> dma.data, status |-> st]
            /\ used' = [flags |-> used.flags,
                        idx |-> Add16(used.idx, 1),
                        ring |-> [used.ring EXCEPT ![used.idx % queue_size] =
                                     [id |-> r.head, len |-> SECTOR_LEN + 1,
                                      pub |-> r.pub]]]
            /\ IF pc = "idle"
               THEN UNCHANGED <<ioerrs, script>>
               ELSE IF script = "failing" /\ st = VIRTIO_BLK_S_IOERR
               THEN ioerrs' = ioerrs + 1 /\ script' = script
               ELSE IF script = "failing" /\ st = VIRTIO_BLK_S_OK
               THEN ioerrs' = ioerrs /\ script' = "ok"
               ELSE ioerrs' = 0 /\ script' = "off"
    /\ inflight' = Tail(inflight)
    /\ isr' = 1
    /\ UNCHANGED <<pc, block_id, buffer, result, retry_count, attempt,
                   valid_attempts, ring_retry_count, use_real_io, desc, avail,
                   free_head, num_free, last_used_idx, req, queue_notify,
                   isr_sticky, dev_avail_idx, log, calls, submitted, timeouts>>
    /\ UNCHANGED notBlkVars

DriverStep == WriteRequest \/ Publish \/ Notify \/ PollIsr \/ AckIsr \/ RingCheck

\* The ELF loader at rest, while the block driver is observed.
ElfIdle ==
    /\ elf_len = 0
    /\ e_phnum = 0
    /\ ph_index = 0
    /\ phdr = <<>>
    /\ mem = <<>>
    /\ elf_result = "idle"

\* Hart 0 while the loader runs: its argument registers hold what the loader
\* last left there.
InLoader == [a0 |-> "any", a1 |-> "any", pc |-> "loader"]

\* main not started, while the block driver or load_segments is observed.
BootIdle ==
    /\ bpc = "off"
    /\ image = <<>>
    /\ bdma = <<>>
    /\ scan_sector = 0
    /\ start_sector = 0
    /\ sector_offset = 0
    /\ staging = <<>>
    /\ entry_point = 0
    /\ jump_target = "none"
    /\ segments = "not called"
    /\ hart = InLoader
    /\ diag = <<>>

\* No Virtqueue observed on its own.
NoCall == [op |-> "none"]

QueueIdle ==
    /\ last_call = NoCall
    /\ new_args = <<>>
    /\ new_result = "idle"
    /\ vq = <<>>
    /\ vq_used = <<>>
    /\ chains = <<>>
    /\ unconsumed = 0

\* probe_all_devices not called.
ProbeIdle ==
    /\ slots = <<>>
    /\ probe_pc = "idle"
    /\ probe_i = 0
    /\ found_devices = <<>>
    /\ init_calls = <<>>
    /\ adopted = {}

\* initialize not observed.
DevInitIdle ==
    /\ ipc = "idle"
    /\ dev = <<>>
    /\ status_reg = 0
    /\ mmio = <<>>
    /\ init_result = "none"
    /\ initialized = FALSE
    /\ queue_ready = FALSE

\* No error classified.
ErrIdle == classified = <<>>

\* The parser not observed on its own.
ParseIdle ==
    /\ elf_image = <<>>
    /\ parse_pc = "idle"
    /\ parse_result = "none"
    /\ accesses = <<>>

\* No trap taken.
TrapIdle ==
    /\ trap_pc = "idle"
    /\ trap_regs = <<>>
    /\ trap_done = <<>>
    /\ s_hart = <<>>

SetupIdle == ProbeIdle /\ DevInitIdle /\ ErrIdle /\ ParseIdle /\ TrapIdle

Init == InitBlk /\ ElfIdle /\ BootIdle /\ QueueIdle /\ SetupIdle

Next ==
    \/ ReadBlock
    \/ WriteRequest
    \/ Publish
    \/ Notify
    \/ PollIsr
    \/ AckIsr
    \/ RingCheck
    \/ DevFetch
    \/ DevComplete

Spec == Init /\ [][Next]_vars

\* The hart executes the driver's code without pause: weak fairness of its steps.
SpecFair == Spec /\ WF_vars(DriverStep)

(***************************************************************************)
(* Properties of read_block                                                *)
(***************************************************************************)

\* A read_block call has returned.
Returned == pc = "idle" /\ calls > 0

\* The first call of the behaviour has returned Ok: no request of an earlier
\* call is outstanding during it.
FirstReturnedOk == Returned /\ calls = 1 /\ result = "Ok"

\* C1 as the specification states it: whenever read_block returns Ok, the
\* caller's buffer holds the content the backing store has at the sector read.
C1_OkDataIsSectorData ==
    (Returned /\ result = "Ok") => buffer = disk[block_id]

\* C2 as the specification states it: an attempt returns Ok only when the
\* completion of its request carried status byte 0.  With one request submitted
\* in the call, the completion that ended the attempt is that request's.
C2_OkOnlyOnStatusOk ==
    (FirstReturnedOk /\ submitted = 1) => (script = "ok" /\ ioerrs = 0)

\* C3 as the specification states it: when the device completes k attempts
\* with status 1 and the next with status 0, and nothing times out, read_block
\* returns Ok after exactly k + 1 submissions, the last completion being the one
\* with status 0, and num_free is the queue size.
C3_RetryUntilStatusOk ==
    (FirstReturnedOk /\ timeouts = 0 /\ script # "off")
        => /\ script = "ok"
           /\ submitted = ioerrs + 1
           /\ num_free = queue_size

\* The loop budgets of one call are respected, and an error is returned only
\* when the retry budget is used up.
WithinBudgets ==
    /\ attempt < max_attempts
    /\ valid_attempts < StaleIsrLimit
    /\ ring_retry_count < MAX_RING_RETRIES
    /\ retry_count < MAX_RETRIES
    /\ timeouts <= MAX_RETRIES
    /\ submitted <= MAX_RETRIES
    /\ (Returned /\ result = "Timeout") => timeouts = MAX_RETRIES

\* C4: every read_block call terminates: the polls of an attempt and the
\* retries of a call stay within their budgets, an attempt without completion
\* ends in Timeout, and a call that has started returns.
C4_ReadBlockTerminates ==
    /\ []WithinBudgets
    /\ (pc # "idle") ~> (pc = "idle")

\* A call that used up its retry budget on timeouts and returned the error.
C4_Witness ==
    Returned /\ result = "Timeout" /\ timeouts = MAX_RETRIES /\ submitted = MAX_RETRIES

\* C5: whenever every request published on the available ring has been
\* completed by the device, num_free equals the queue size.
C5_NoDescriptorLeak ==
    (used.idx = avail.idx) => num_free = queue_size

\* Two requests of one call were submitted and completed.
C5_Witness ==
    /\ submitted >= 2
    /\ used.idx = avail.idx
    /\ inflight = <<>>
    /\ num_free = queue_size

\* Positions of the log holding event e.
At(e) == {i \in 1..Len(log) : log[i] = e}

\* The position of the publication before position i, 0 when there is none.
PrevPublication(i) ==
    LET before == {j \in 1..(i - 1) : log[j] = "idx"}
    IN  IF before = {} THEN 0 ELSE CHOOSE j \in before : \A k \in before : k <= j

\* The position of the publication after position i, Len(log) + 1 when there
\* is none.
NextPublication(i) ==
    LET after == {j \in (i + 1)..Len(log) : log[j] = "idx"}
    IN  IF after = {} THEN Len(log) + 1
        ELSE CHOOSE j \in after : \A k \in after : j <= k

\* The publication at position i of the log comes after a release fence that
\* itself comes after the request-header and descriptor writes of the request,
\* the writes made since the publication before.
ReleasedBefore(i) ==
    LET since == (PrevPublication(i) + 1)..(i - 1)
        writes == {w \in since : log[w] \in {"hdr", "desc"}}
    IN  /\ \E w \in writes : log[w] = "hdr"
        /\ \E w \in writes : log[w] = "desc"
        /\ \E f \in since : log[f] = "rel" /\ \A w \in writes : w < f

\* The publication at position i is followed by fence iorw,iorw and then the
\* QUEUE_NOTIFY write, both before position n.
NotifiedBetween(i, n) ==
    \E f \in (i + 1)..(n - 1) :
        /\ log[f] = "full"
        /\ \E q \in (f + 1)..(n - 1) : log[q] = "notify"

\* Every publication in the log is fenced, and notified before the next one;
\* the newest one may still be waiting for its notification while the driver
\* is at that step.
PublicationsOrdered ==
    \A i \in At("idx") :
        /\ ReleasedBefore(i)
        /\ (NextPublication(i) <= Len(log) \/ pc # "notify")
              => NotifiedBetween(i, NextPublication(i))

\* The value written to QUEUE_NOTIFY is the index of the queue.
NotifyNamesQueue == (At("notify") # {}) => queue_notify = 0

\* C6: avail.idx changes only by +1 modulo 2^16; every publication is preceded
\* by a release fence after the header and descriptor writes, and followed,
\* after the full fence, by the QUEUE_NOTIFY write of the queue index before
\* the next publication.
C6_PublishFenceNotify ==
    /\ [](PublicationsOrdered /\ NotifyNamesQueue)
    /\ [][avail'.idx = avail.idx \/ avail'.idx = Add16(avail.idx, 1)]_vars

\* Two publications in one call, the second taking avail.idx over the 16-bit wrap.
C6_Witness ==
    /\ Cardinality(At("idx")) >= 2
    /\ Cardinality(At("notify")) >= 2
    /\ avail.idx = 0
    /\ pc = "poll"

(***************************************************************************)
(* ElfParser::load_segments with the callback memory::load_segment         *)
(* (elf_parser.rs:82-147, 158-204; minimal_boot.rs:59-63).                 *)
(*                                                                         *)
(* A u64 size or file offset is written as its two's-complement value:     *)
(* 2^64 - 1 is -1.  Wrapping u64 addition is then integer addition, and    *)
(* the unsigned order is ULt.  The bytes of the file are abstract: the     *)
(* byte at offset o is FileByte(o), different at every offset and never 0. *)
(***************************************************************************)
MaxPhnum == 2          \* program headers of the modelled images
MaxFilesz == 2         \* largest p_filesz that does not wrap; p_memsz goes one further

PT_LOAD == 1                      \* elf_parser.rs:44
PT_NOTE == 4                      \* a program header type that is not PT_LOAD
EHDR_SIZE == 64                   \* elf_parser.rs:58, size_of::<Elf64Ehdr>()
PHDR_SIZE == 56                   \* elf_parser.rs:61, size_of::<Elf64Phdr>()
U64_MAX == -1                     \* 2^64 - 1
LOW_ADDRESS_LIMIT == -2147479552  \* 0x1000, elf_parser.rs:163

e_phoff == EHDR_SIZE        \* the program header table follows the ELF header
e_phentsize == PHDR_SIZE

ULt(a, b) == IF (a >= 0) = (b >= 0) THEN a < b ELSE a >= 0
UGt(a, b) == ULt(b, a)

\* Where the segment data of the modelled images starts.
DataOff == EHDR_SIZE + PHDR_SIZE * MaxPhnum

FileByte(o) == o + 1
Junk == -1                  \* what RAM holds before anything is written

\* Load addresses: 0x800 (below the guard of copy_to_address), 0x80200000 and
\* the byte after it, and 0x80070000, where the descriptor table of the
\* virtqueue lies (memory.rs:16).
LowAddr == LOW_ADDRESS_LIMIT - 2048
KernelAddr == 2 * 1048576
RingAddr == 458752
Vaddrs == {LowAddr, KernelAddr, KernelAddr + 1, RingAddr}

MemAddrs ==
    (LowAddr..(LowAddr + MaxFilesz + 1))
        \cup (KernelAddr..(KernelAddr + MaxFilesz + 2))
        \cup (RingAddr..(RingAddr + MaxFilesz + 1))

NoPhdr == [p_type |-> 0, p_offset |-> 0, p_vaddr |-> 0, p_filesz |-> 0, p_memsz |-> 0]

\* The program headers an image may hold.  A header that is not PT_LOAD has
\* the fields that would write the most if it were loaded; a segment at the
\* descriptor table is one of file bytes with a zero tail, or of zeroes only.
Phdrs ==
    {h \in [p_type : {PT_LOAD, PT_NOTE},
            p_offset : DataOff..(DataOff + 1),
            p_vaddr : Vaddrs,
            p_filesz : (0..MaxFilesz) \cup {U64_MAX},
            p_memsz : 0..(MaxFilesz + 1)] :
        \/ h.p_type = PT_LOAD /\ h.p_vaddr # RingAddr
        \/ (/\ h.p_type = PT_LOAD
            /\ h.p_vaddr = RingAddr
            /\ h.p_offset = DataOff
            /\ h.p_filesz \in {0, MaxFilesz}
            /\ h.p_memsz = MaxFilesz + 1)
        \/ (/\ h.p_type = PT_NOTE
            /\ h.p_offset = DataOff
            /\ h.p_vaddr = KernelAddr
            /\ h.p_filesz = MaxFilesz
            /\ h.p_memsz = MaxFilesz + 1)}

\* Lengths of the parsed slice: one byte short of the program header table, or
\* the table and up to MaxFilesz + 1 bytes of segment data.  ElfParser::new has
\* accepted the slice, so it holds a whole ELF header.
ElfLens(n) ==
    {l \in {e_phoff + n * e_phentsize - 1} \cup (DataOff..(DataOff + MaxFilesz + 1)) :
        l >= EHDR_SIZE}

\* A clamp that is not applied.
ReadableSizeUnclamped(file_offset, file_size, len) == file_size

\* memory::copy_to_address past its guards (elf_parser.rs:175-178): n bytes of
\* the slice, taken from file offset off, to dst.
copy_to_address(m, dst, off, n) ==
    [a \in DOMAIN m |->
        IF dst <= a /\ a < dst + n THEN FileByte(off + (a - dst)) ELSE m[a]]

\* memory::zero_memory (elf_parser.rs:184-186).
zero_memory(m, addr, size) ==
    [a \in DOMAIN m |-> IF addr <= a /\ a < addr + size THEN 0 ELSE m[a]]

\* A load_segment whose zero fill starts at dst instead of dst + filesz.
load_segment_zero_from_dst(m, dst, off, filesz, memsz) ==
    IF filesz > 0 /\ dst < LOW_ADDRESS_LIMIT
    THEN [halted |-> TRUE, mem |-> m]
    ELSE LET copied == IF filesz > 0 THEN copy_to_address(m, dst, off, filesz) ELSE m
         IN  [halted |-> FALSE,
              mem |-> IF UGt(memsz, filesz)
                      THEN zero_memory(copied, dst, memsz)
                      ELSE copied]

\* memory::load_segment(dst, src, memsz) with src the filesz bytes of the slice
\* from file offset off on (elf_parser.rs:188-204).  copy_to_address never
\* returns when dst is below 0x1000 (elf_parser.rs:163-167); the source, a part
\* of the staging buffer, is never that low.
load_segment(m, dst, off, filesz, memsz) ==
    IF filesz > 0 /\ dst < LOW_ADDRESS_LIMIT
    THEN [halted |-> TRUE, mem |-> m]
    ELSE LET copied == IF filesz > 0 THEN copy_to_address(m, dst, off, filesz) ELSE m
         IN  [halted |-> FALSE,
              mem |-> IF UGt(memsz, filesz)
                      THEN zero_memory(copied, dst + filesz, memsz - filesz)
                      ELSE copied]

\* load_segments: readable_size (elf_parser.rs:129-133).
ReadableSize(file_offset, file_size, len) ==
    IF UGt(file_offset + file_size, len) THEN len - file_offset ELSE file_size

\* Whether &data[start .. start + n] is a slice of data; the indexing panics
\* otherwise (elf_parser.rs:135).
SliceInBounds(start, n, len) ==
    /\ ~ULt(start + n, start)
    /\ ~UGt(start + n, len)

\* ElfParser::new has returned Ok and load_segments is entered.
InitElf ==
    /\ e_phnum \in 0..MaxPhnum
    /\ elf_len \in ElfLens(e_phnum)
    /\ ph_index = 0
    /\ phdr = NoPhdr
    /\ mem \in {[a \in MemAddrs |-> c] : c \in {Junk, 0}}
    /\ elf_result = "entered"

\* The check of the program header table (elf_parser.rs:91-95).
CheckPhdrTable ==
    /\ elf_result = "entered"
    /\ elf_result' = IF e_phoff + e_phnum * e_phentsize > elf_len
                     THEN "ErrPhdrTable"
                     ELSE "running"
    /\ UNCHANGED <<elf_len, e_phnum, ph_index, phdr, mem>>
    /\ UNCHANGED notElfVars

\* One iteration of `for i in 0..ehdr.e_phnum` (elf_parser.rs:97-143); h is
\* the program header the image holds at phdr_offset.
LoadHeader ==
    /\ elf_result = "running"
    /\ ph_index < e_phnum
    /\ \E h \in Phdrs :
        LET phdr_offset == e_phoff + ph_index * e_phentsize
            readable_size == ReadableSize(h.p_offset, h.p_filesz, elf_len)
            loaded == load_segment(mem, h.p_vaddr, h.p_offset, readable_size, h.p_memsz)
        IN  IF phdr_offset + e_phentsize > elf_len
            THEN elf_result' = "ErrPhdr" /\ UNCHANGED <<phdr, mem, ph_index>>
            ELSE IF phdr_offset + PHDR_SIZE > elf_len
            THEN elf_result' = "ErrPhdrData" /\ UNCHANGED <<phdr, mem, ph_index>>
            ELSE /\ phdr' = h
                 /\ IF h.p_type # PT_LOAD
                    THEN /\ ph_index' = ph_index + 1
                         /\ UNCHANGED <<mem, elf_result>>
                    ELSE IF UGt(h.p_offset, elf_len)
                    THEN /\ elf_result' = "ErrSegmentOffset"
                         /\ UNCHANGED <<mem, ph_index>>
                    ELSE IF UGt(readable_size, 0)
                            /\ ~SliceInBounds(h.p_offset, readable_size, elf_len)
                    THEN /\ elf_result' = "panic"
                         /\ UNCHANGED <<mem, ph_index>>
                    ELSE IF loaded.halted
                    THEN /\ elf_result' = "halted"
                         /\ UNCHANGED <<mem, ph_index>>
                    ELSE /\ mem' = loaded.mem
                         /\ ph_index' = ph_index + 1
                         /\ UNCHANGED elf_result
    /\ UNCHANGED <<elf_len, e_phnum>>
    /\ UNCHANGED notElfVars

\* The loop is over: Ok(()) (elf_parser.rs:145-146).
FinishLoad ==
    /\ elf_result = "running"
    /\ ph_index = e_phnum
    /\ elf_result' = "Ok"
    /\ UNCHANGED <<elf_len, e_phnum, ph_index, phdr, mem>>
    /\ UNCHANGED notElfVars

\* The block driver at rest, freshly initialized, while the loader is observed.
BlkAtRest ==
    /\ InitBlk
    /\ avail.idx = 0
    /\ dma.data = 0
    /\ ~isr_sticky

NextElf ==
    \/ CheckPhdrTable
    \/ LoadHeader
    \/ FinishLoad

\* load_segments entered, the driver at rest and main not observed.
StartElf == BlkAtRest /\ BootIdle /\ QueueIdle /\ SetupIdle /\ InitElf

SpecElf == StartElf /\ [][NextElf]_vars

(***************************************************************************)
(* Properties of load_segments                                             *)
(***************************************************************************)

\* load_segments has read the program header phdr and gone on past it.
Loaded == phdr # NoPhdr /\ elf_result \in {"running", "Ok"}

\* The file range of h, its end taken without wrapping, lies in the slice.
Contained(h) ==
    /\ h.p_filesz >= 0
    /\ h.p_offset + h.p_filesz <= elf_len

\* n bytes of the file from h.p_offset on are at h.p_vaddr, and zero bytes
\* follow them up to h.p_vaddr + h.p_memsz.
Materialized(h, n) ==
    /\ \A k \in 0..(n - 1) : mem[h.p_vaddr + k] = FileByte(h.p_offset + k)
    /\ \A k \in n..(h.p_memsz - 1) : mem[h.p_vaddr + k] = 0

\* The bytes a step changes lie in the memory range of the PT_LOAD header it
\* has read.
WritesInsideSegment ==
    \A a \in MemAddrs :
        (elf_result # "idle" /\ mem'[a] # mem[a])
            => /\ phdr'.p_type = PT_LOAD
               /\ phdr'.p_vaddr <= a
               /\ \/ a < phdr'.p_vaddr + phdr'.p_memsz
                  \/ a < phdr'.p_vaddr + phdr'.p_filesz

Truncated(h) ==
    /\ h.p_type = PT_LOAD
    /\ h.p_filesz >= 0
    /\ h.p_offset + h.p_filesz > elf_len

\* The copy of h is not stopped by the low-address guard of copy_to_address.
NotGuarded(h) == h.p_vaddr >= LOW_ADDRESS_LIMIT

ScanLimit == 3

\* Last sector of the load, exclusive (1968 in the source).
LoadLimit == 4

ELF_MAGIC == <<127, 69, 76, 70>>

\* 0x80000000 and 0x90000000, the window of is_valid_entry_point.
ENTRY_LO == 0
ENTRY_HI == 268435456

\* 0x80400000, the address main falls back to.
DEFAULT_ENTRY == 4194304

\* The staging buffer at SAFE_BUFFER_BASE is 1 MiB.
BUFFER_SIZE == 1048576

\* 0x7FFFFFFF, 0x80000000, 0x80200000, 0x8FFFFFFF, 0x90000000, 0x70000000.
Entries == {-1, 0, 2097152, 268435455, 268435456, -268435456}

ZeroSector == [first4 |-> <<0, 0, 0, 0>>, e_entry |-> 0]

\* A sector whose first byte alone matches the magic.
NearMissSector == [first4 |-> <<127, 0, 0, 0>>, e_entry |-> 0]

ElfSector(e) == [first4 |-> ELF_MAGIC, e_entry |-> e]

ElfSectors == {ElfSector(e) : e \in Entries}

\* Disks: zeroes, with at most one sector that holds something else, or with
\* two sectors that each begin an ELF image; and disks of fewer sectors than
\* the load goes through, with an ELF image at sector 0.
Disks ==
    {[s \in 0..(c - 1) |-> IF s = 0 THEN ElfSector(0) ELSE ZeroSector] :
        c \in 1..(LoadLimit - 1)}
    \cup
    {[s \in 0..(LoadLimit - 1) |-> ZeroSector]}
    \cup {[s \in 0..(LoadLimit - 1) |-> IF s = k THEN c ELSE ZeroSector] :
             k \in 0..(LoadLimit - 1), c \in ElfSectors \cup {NearMissSector}}
    \cup {[s \in 0..(LoadLimit - 1) |->
              IF s = k THEN ElfSector(0)
              ELSE IF s = j THEN ElfSector(2097152) ELSE ZeroSector] :
             k \in 0..(LoadLimit - 1), j \in 1..(LoadLimit - 1)}

\* The DMA buffer at 0x80070050 is written by nothing before the first
\* completion of the device: it holds what memory held.
InitialBdma == {ZeroSector} \cup ElfSectors

\* is_valid_entry_point with the upper bound taken in.
is_valid_entry_point_inclusive(e) == e >= ENTRY_LO /\ e <= ENTRY_HI

is_valid_entry_point(e) == e >= ENTRY_LO /\ e < ENTRY_HI

is_elf_signature(data) ==
    /\ Len(data.first4) >= 4
    /\ data.first4[1] = 127
    /\ data.first4[2] = 69
    /\ data.first4[3] = 76
    /\ data.first4[4] = 70

\* config.capacity as read_configuration_simple takes it from the device: the
\* number of sectors of the disk.
config_capacity == Cardinality(DOMAIN image)

\* read_block(s) as the loader sees it.  A sector at or past the capacity is
\* refused with IoError before any request is made (device.rs:439-441).
\* Otherwise the device completes with status
\* OK and the sector is in the DMA buffer; or it completes with another
\* status and read_block returns Ok with what the buffer held; or every
\* attempt times out, while a late completion may still write the buffer.
ReadBlockOutcomes(s) ==
    IF s >= config_capacity
    THEN {[ok |-> FALSE, data |-> ZeroSector, dma |-> bdma]}
    ELSE {[ok |-> TRUE, data |-> image[s], dma |-> image[s]],
          [ok |-> TRUE, data |-> bdma, dma |-> bdma],
          [ok |-> FALSE, data |-> ZeroSector, dma |-> bdma],
          [ok |-> FALSE, data |-> ZeroSector, dma |-> image[s]]}

InitBoot ==
    /\ bpc = "create"
    /\ image \in Disks
    /\ bdma \in InitialBdma
    /\ scan_sector = 0
    /\ start_sector = 0
    /\ sector_offset = 0
    /\ staging = <<>>
    /\ entry_point = 0
    /\ jump_target = "none"
    /\ segments = "not called"
    /\ hart = InLoader
    /\ diag = <<>>

\* safe_shutdown: the wfi loop.
SafeShutdown(message) ==
    /\ bpc' = "shutdown"
    /\ diag' = Append(diag, message)

\* panic_with_message: the nop loop.
PanicWithMessage(message) ==
    /\ bpc' = "panic"
    /\ diag' = Append(diag, message)

\* 0x87000000, the device tree address main passes.
DTB_ADDR == 117440512

\* jump_to_kernel of main with the hart id and the device tree address
\* swapped.
BootArgsSwapped(entry) == [entry |-> entry, hartid |-> DTB_ADDR, dtb_addr |-> 0]

\* jump_to_kernel of main: the arguments of boot_env::boot_kernel, which
\* hands them unchanged to boot_env::jump_to_kernel and on to the assembly.
BootArgs(entry) == [entry |-> entry, hartid |-> 0, dtb_addr |-> DTB_ADDR]

\* jump_to_kernel_asm(entry, hartid, dtb_addr) -> !: the assembly routine
\* moves the hart id to a0 and the device tree address to a1 and jumps to
\* the entry.
jump_to_kernel_asm(args) ==
    [a0 |-> args.hartid, a1 |-> args.dtb_addr, pc |-> args.entry]

\* jump_to_kernel does not return.
JumpToKernel(entry) ==
    /\ bpc' = "jumped"
    /\ jump_target' = entry
    /\ hart' = jump_to_kernel_asm(BootArgs(entry))

\* kernel::create_kernel_loader: probe_all_devices finds a block device or
\* does not.
CreateKernelLoader ==
    /\ bpc = "create"
    /\ \/ /\ bpc' = "initialize"
          /\ diag' = diag
       \/ SafeShutdown("DeviceNotFound")
    /\ UNCHANGED <<image, bdma, scan_sector, start_sector, sector_offset,
                   staging, entry_point, jump_target, segments, hart>>
    /\ UNCHANGED notBootVars

\* load_kernel_raw, step 1: initialize the device.
InitializeDevice ==
    /\ bpc = "initialize"
    /\ \/ /\ bpc' = "detect"
          /\ diag' = diag
       \/ SafeShutdown("InitFailed")
    /\ UNCHANGED <<image, bdma, scan_sector, start_sector, sector_offset,
                   staging, entry_point, jump_target, segments, hart>>
    /\ UNCHANGED notBootVars

\* 1968u32.saturating_sub(start_sector)
sectors_to_read(s) == IF LoadLimit > s THEN LoadLimit - s ELSE 0

\* detect_elf_start_sector found the image at sector s; load_kernel_raw
\* goes on to its read loop.
StartLoadAt(s, messages) ==
    /\ start_sector' = s
    /\ sector_offset' = 0
    /\ staging' = <<>>
    /\ IF sectors_to_read(s) = 0
       THEN /\ bpc' = "shutdown"
            /\ diag' = diag \o messages \o <<"IoError">>
       ELSE /\ bpc' = "load"
            /\ diag' = diag \o messages

\* detect_elf_start_sector: sector 0.
DetectSector0 ==
    /\ bpc = "detect"
    /\ \E o \in ReadBlockOutcomes(0) :
          /\ bdma' = o.dma
          /\ IF o.ok /\ is_elf_signature(o.data)
             THEN /\ StartLoadAt(0, <<>>)
                  /\ scan_sector' = scan_sector
             ELSE /\ bpc' = "scan"
                  /\ scan_sector' = 1
                  /\ UNCHANGED <<start_sector, sector_offset, staging, diag>>
    /\ UNCHANGED <<image, entry_point, jump_target, segments, hart>>
    /\ UNCHANGED notBootVars

\* detect_elf_start_sector: one turn of the loop over sectors 1..99, or its
\* end with the fallback to sector 1.
ScanSector ==
    /\ bpc = "scan"
    /\ IF scan_sector < ScanLimit
       THEN \E o \in ReadBlockOutcomes(scan_sector) :
               /\ bdma' = o.dma
               /\ IF o.ok /\ is_elf_signature(o.data)
                  THEN /\ StartLoadAt(scan_sector, <<"ELF found">>)
                       /\ scan_sector' = scan_sector
                  ELSE /\ scan_sector' = scan_sector + 1
                       /\ UNCHANGED <<bpc, start_sector, sector_offset,
                                      staging, diag>>
       ELSE /\ StartLoadAt(1, <<"No ELF signature found, defaulting to sector 1">>)
            /\ UNCHANGED <<bdma, scan_sector>>
    /\ UNCHANGED <<image, entry_point, jump_target, segments, hart>>
    /\ UNCHANGED notBootVars

\* load_kernel_raw: one turn of the read loop, or its end with the check of
\* the signature at the start of the staging buffer, which only warns.
LoadSector ==
    /\ bpc = "load"
    /\ IF sector_offset < sectors_to_read(start_sector)
       THEN \E o \in ReadBlockOutcomes(start_sector + sector_offset) :
               /\ bdma' = o.dma
               /\ IF ~o.ok
                  THEN /\ SafeShutdown("IoError")
                       /\ UNCHANGED <<sector_offset, staging>>
                  ELSE IF sector_offset * SECTOR_LEN + SECTOR_LEN > BUFFER_SIZE
                  THEN /\ SafeShutdown("BufferTooSmall")
                       /\ UNCHANGED <<sector_offset, staging>>
                  ELSE /\ staging' = Append(staging, o.data)
                       /\ sector_offset' = sector_offset + 1
                       /\ UNCHANGED <<bpc, diag>>
       ELSE /\ bpc' = "loaded"
            /\ diag' = IF is_elf_signature(staging[1])
                          THEN diag
                          ELSE Append(diag, "Expected ELF signature not found")
            /\ UNCHANGED <<bdma, sector_offset, staging>>
    /\ UNCHANGED <<image, scan_sector, start_sector, entry_point, jump_target,
                   segments, hart>>
    /\ UNCHANGED notBootVars

\* self.bytes_loaded when load_kernel_raw has returned Ok.
bytes_loaded == Len(staging) * SECTOR_LEN

\* find_elf_signature on the bytes_loaded bytes of the staging buffer.
\* The Option is written as a set: {} for None, {0} for Some(0).
find_elf_signature ==
    IF bytes_loaded < 4 THEN {}
    ELSE IF /\ staging[1].first4[1] = 127
            /\ staging[1].first4[2] = 69
            /\ staging[1].first4[3] = 76
            /\ staging[1].first4[4] = 70
         THEN {0}
         ELSE {}

\* ElfParser::new on the slice from offset 0.
ElfParserNew ==
    IF bytes_loaded < EHDR_SIZE THEN "ErrTooSmall"
    ELSE IF staging[1].first4 # ELF_MAGIC THEN "ErrMagic"
    ELSE "Ok"

\* main, from the return of find_and_load_kernel to the check of the entry
\* point: an entry outside the window goes to the default address at once.
ParseElf ==
    /\ bpc = "loaded"
    /\ IF find_elf_signature = {}
       THEN /\ PanicWithMessage("no valid kernel file")
            /\ UNCHANGED <<entry_point, jump_target, hart>>
       ELSE IF ElfParserNew # "Ok"
       THEN /\ PanicWithMessage("ELF parse failed")
            /\ UNCHANGED <<entry_point, jump_target, hart>>
       ELSE /\ entry_point' = staging[1].e_entry
            /\ IF ~is_valid_entry_point(entry_point')
               THEN /\ JumpToKernel(DEFAULT_ENTRY)
                    /\ diag' = Append(diag, "entry point abnormal, using default 0x80400000")
               ELSE /\ bpc' = "segments"
                    /\ UNCHANGED <<jump_target, hart, diag>>
    /\ UNCHANGED <<image, bdma, scan_sector, start_sector, sector_offset,
                   staging, segments>>
    /\ UNCHANGED notBootVars

\* What parser.load_segments can do, as the second part establishes: return
\* Ok or Err, or not return (the halt of copy_to_address, the panic of an
\* out-of-range slice).
LoadSegmentsOutcomes == {"Ok", "Err", "halted", "panic"}

\* main: load the segments, warn if that fails, and jump to the entry point.
LoadSegmentsAndJump ==
    /\ bpc = "segments"
    /\ \E r \in LoadSegmentsOutcomes :
          /\ segments' = r
          /\ CASE r = "Ok" ->
                     /\ JumpToKernel(entry_point)
                     /\ diag' = Append(diag, "kernel loaded, jumping")
               [] r = "Err" ->
                     /\ JumpToKernel(entry_point)
                     /\ diag' = diag \o <<"segment load warning", "kernel loaded, jumping">>
               [] OTHER ->
                     /\ bpc' = r
                     /\ UNCHANGED <<jump_target, hart, diag>>
    /\ UNCHANGED <<image, bdma, scan_sector, start_sector, sector_offset,
                   staging, entry_point>>
    /\ UNCHANGED notBootVars

NextBoot ==
    \/ CreateKernelLoader
    \/ InitializeDevice
    \/ DetectSector0
    \/ ScanSector
    \/ LoadSector
    \/ ParseElf
    \/ LoadSegmentsAndJump

\* main entered, the driver at rest and load_segments not observed.
StartBoot == BlkAtRest /\ ElfIdle /\ QueueIdle /\ SetupIdle /\ InitBoot

SpecBoot == StartBoot /\ [][NextBoot]_vars

(***************************************************************************)
(* Properties of the boot                                                  *)
(***************************************************************************)

\* main has called jump_to_kernel.
Jumped == bpc = "jumped"

\* C9: the handoff target is e_entry when 0x80000000 <= e_entry < 0x90000000
\* and the default 0x80400000 for every e_entry outside that window.
C9_HandoffTarget ==
    Jumped =>
        LET e == staging[1].e_entry
        IN  jump_target = IF e >= 0 /\ e < 268435456 THEN e ELSE 4194304

\* A handoff for an image at sector 0 whose e_entry is 0x90000000, the first
\* address past the window.
C9_Witness ==
    /\ Jumped
    /\ staging[1].e_entry = 268435456
    /\ jump_target = DEFAULT_ENTRY
    /\ image[0] = ElfSector(268435456)

NoElfOnDisk == \A s \in DOMAIN image : image[s].first4[1] = 0

\* C10: with no sector of the disk beginning with the ELF magic, the boot
\* never jumps to a kernel entry.
C10_NoElfNoJump == (bpc # "off" /\ NoElfOnDisk) => ~Jumped


\* detect_elf_start_sector has just returned start_sector.
Detected == bpc = "load" /\ sector_offset = 0 /\ staging = <<>>

BeginsWithMagic(s) == s \in DOMAIN image /\ image[s].first4 = <<127, 69, 76, 70>>

\* The sectors 1..99 of the claim.
Scanned == {s \in 1..(ScanLimit - 1) : BeginsWithMagic(s)}

\* C11: detect_elf_start_sector returns 0 when sector 0 begins with the ELF
\* magic, otherwise the lowest scanned sector that does, otherwise 1.
C11_DetectLowestElfSector ==
    Detected =>
        start_sector =
            IF BeginsWithMagic(0) THEN 0
            ELSE IF Scanned # {}
                 THEN CHOOSE s \in Scanned : \A t \in Scanned : s <= t
                 ELSE 1


\* load_kernel_raw has returned Ok.
LoadedOk == bpc = "loaded"

\* C12: after load_kernel_raw returns Ok, the i-th sector of the staging
\* buffer equals disk sector start_sector + i, bytes_loaded is 512 times the
\* number of sectors read, and it does not exceed the staging buffer.
C12_StagingMirrorsDisk ==
    LoadedOk =>
        /\ \A i \in 0..(bytes_loaded \div 512 - 1) :
              staging[i + 1] = image[start_sector + i]
        /\ bytes_loaded = 512 * sector_offset
        /\ sector_offset = sectors_to_read(start_sector)
        /\ bytes_loaded <= 1048576


FailureDiagnostics ==
    {"DeviceNotFound", "InitFailed", "IoError", "BufferTooSmall",
     "ELF parse failed"}

\* A stage of the boot has reported failure.
StageFailed ==
    \/ segments = "Err"
    \/ \E i \in 1..Len(diag) : diag[i] \in FailureDiagnostics

\* C14: once a stage has reported failure (no device, load_kernel_raw Err,
\* ElfParser::new Err, load_segments Err) the boot is in a halt loop, a
\* diagnostic printed, and it has not jumped.
C14_FailureHalts ==
    StageFailed => /\ bpc \in {"shutdown", "panic"}
                   /\ diag # <<>>
                   /\ ~Jumped

\* C15: at every handoff, load_segments has been called and has gone through
\* every program header, also on the fallback to the default entry.
C15_SegmentsBeforeJump == Jumped => segments = "Ok"


(***************************************************************************)
(* Properties of the virtqueue                                             *)
(***************************************************************************)

\* The available-ring entries whose used element the driver has not consumed.
InFlightEntries ==
    {(last_used_idx + k) % 65536 :
        k \in 0..(((avail.idx - last_used_idx + 65536) % 65536) - 1)}

\* C16: a descriptor chain that is still in flight is not published again:
\* no two available-ring entries not yet consumed name the same chain.
C16_InFlightChainNotRepublished ==
    \A i, j \in InFlightEntries :
        i # j => avail.ring[i % queue_size] # avail.ring[j % queue_size]


\* C17: the available-ring entries the device has not consumed never exceed
\* the queue size, and when an attempt has timed out and the next attempt
\* starts or read_block returns, no chain is left in flight and num_free is
\* back at its value before the request.
C17_TimeoutReclaimsChain ==
    /\ (avail.idx - dev_avail_idx + 65536) % 65536 <= queue_size
    /\ (timeouts > 0 /\ pc \in {"request", "idle"}) =>
           /\ InFlightEntries = {}
           /\ num_free = queue_size


(***************************************************************************)
(* Virtqueue on its own: Virtqueue::new, alloc_desc_chain, free_desc_chain *)
(* and get_used_elem, called in any order                                  *)
(***************************************************************************)

\* 0x80070000 and 0x80071000, the layout validate_memory_layout expects.
expected_desc_addr == 458752
expected_used_addr == 462848

\* The largest size Virtqueue::new lets through its first check.
MAX_QUEUE_SIZE == 1024

NoQueue == <<>>

\* The sizes tried: around the limits of the first check, small ones, and
\* around the largest size whose available ring ends before the used ring.
NewSizes == {0, 1, 2, 3, 227, 228, MAX_QUEUE_SIZE, MAX_QUEUE_SIZE + 1}

NewArgs ==
    {[desc_addr |-> d, avail_addr |-> expected_desc_addr + 16 * n + a,
      used_addr |-> u, size |-> n] :
        d \in {expected_desc_addr, expected_desc_addr + 8, expected_desc_addr + 16},
        a \in {0, 1, 2, 16},
        u \in {expected_used_addr, expected_used_addr + 2,
               expected_used_addr + 4, expected_desc_addr + 64},
        n \in NewSizes}

\* validate_memory_layout without the check of the available ring against
\* the used ring.
validate_memory_layout_without_used_check(desc_addr, avail_addr, used_addr, size) ==
    LET expected_avail_addr == expected_desc_addr + 16 * size
        desc_end == desc_addr + 16 * size
    IN  IF desc_addr # expected_desc_addr THEN "MemoryNotAligned"
        ELSE IF avail_addr # expected_avail_addr THEN "MemoryNotAligned"
        ELSE IF used_addr # expected_used_addr THEN "MemoryNotAligned"
        ELSE IF desc_addr % 16 # 0 THEN "MemoryNotAligned"
        ELSE IF avail_addr % 2 # 0 THEN "MemoryNotAligned"
        ELSE IF used_addr % 4 # 0 THEN "MemoryNotAligned"
        ELSE IF desc_end > avail_addr THEN "MemoryNotAligned"
        ELSE "Ok"

validate_memory_layout(desc_addr, avail_addr, used_addr, size) ==
    LET expected_avail_addr == expected_desc_addr + 16 * size
        desc_end == desc_addr + 16 * size
        avail_end == avail_addr + 6 + 2 * size
    IN  IF desc_addr # expected_desc_addr THEN "MemoryNotAligned"
        ELSE IF avail_addr # expected_avail_addr THEN "MemoryNotAligned"
        ELSE IF used_addr # expected_used_addr THEN "MemoryNotAligned"
        ELSE IF desc_addr % 16 # 0 THEN "MemoryNotAligned"
        ELSE IF avail_addr % 2 # 0 THEN "MemoryNotAligned"
        ELSE IF used_addr % 4 # 0 THEN "MemoryNotAligned"
        ELSE IF desc_end > avail_addr THEN "MemoryNotAligned"
        ELSE IF avail_end > used_addr THEN "MemoryNotAligned"
        ELSE "Ok"

\* The Virtqueue that Virtqueue::new builds, with its descriptors linked
\* into the free list.
FreshQueue(a) ==
    [desc_addr |-> a.desc_addr, avail_addr |-> a.avail_addr,
     used_addr |-> a.used_addr,
     desc |-> [i \in 0..(a.size - 1) |->
                  [addr |-> 0, len |-> 0, flags |-> 0,
                   next |-> IF i = a.size - 1 THEN 0 ELSE i + 1]],
     queue_size |-> a.size, free_head |-> 0, num_free |-> a.size,
     last_used_idx |-> 0]

\* Virtqueue::new: the result and the queue, if one is created.
VirtqueueNew(a) ==
    IF a.size = 0 \/ a.size > MAX_QUEUE_SIZE
    THEN [result |-> "InvalidParam", vq |-> NoQueue]
    ELSE IF a.desc_addr % 16 # 0 \/ a.avail_addr % 2 # 0 \/ a.used_addr % 4 # 0
    THEN [result |-> "MemoryNotAligned", vq |-> NoQueue]
    ELSE IF validate_memory_layout(a.desc_addr, a.avail_addr, a.used_addr, a.size) # "Ok"
    THEN [result |-> "MemoryNotAligned", vq |-> NoQueue]
    ELSE [result |-> "Ok", vq |-> FreshQueue(a)]

InitQueueNew ==
    /\ last_call = NoCall
    /\ new_args \in NewArgs
    /\ new_result = "pending"
    /\ vq = NoQueue
    /\ vq_used = <<>>
    /\ chains = <<>>
    /\ unconsumed = 0

CallVirtqueueNew ==
    /\ new_result = "pending"
    /\ new_result' = VirtqueueNew(new_args).result
    /\ vq' = VirtqueueNew(new_args).vq
    /\ vq_used' = IF new_result' = "Ok" THEN [flags |-> 0, idx |-> 0] ELSE vq_used
    /\ UNCHANGED <<new_args, chains, unconsumed, last_call>>
    /\ UNCHANGED notQueueVars

\* Virtqueue::new about to be called, everything else at rest.
StartQueueNew == BlkAtRest /\ ElfIdle /\ BootIdle /\ SetupIdle /\ InitQueueNew

SpecQueueNew == StartQueueNew /\ [][CallVirtqueueNew]_vars

(***************************************************************************)
(* Properties of Virtqueue::new                                            *)
(***************************************************************************)

\* The byte ranges [lo, hi) of the three regions as the claim sizes them.
RegionsOf(a) ==
    <<[lo |-> a.desc_addr, hi |-> a.desc_addr + 16 * a.size],
      [lo |-> a.avail_addr, hi |-> a.avail_addr + 4 + 2 * a.size],
      [lo |-> a.used_addr, hi |-> a.used_addr + 4 + 8 * a.size]>>

RegionsDisjoint(a) ==
    \A i, j \in 1..3 :
        i < j => \/ RegionsOf(a)[i].hi <= RegionsOf(a)[j].lo
                 \/ RegionsOf(a)[j].hi <= RegionsOf(a)[i].lo

\* Inside 0x80070000..0x80072000.
RegionsInRange(a) ==
    \A i \in 1..3 : RegionsOf(a)[i].lo >= 458752 /\ RegionsOf(a)[i].hi <= 466944

\* C20: a queue Virtqueue::new returns Ok for has its three regions aligned
\* (16, 2 and 4 bytes), pairwise disjoint and inside the ring range; when it
\* returns an error no queue is created.
C20_NewQueueLayout ==
    /\ new_result = "Ok" =>
          /\ vq # NoQueue
          /\ vq.desc_addr = new_args.desc_addr
          /\ vq.queue_size = new_args.size
          /\ new_args.desc_addr % 16 = 0
          /\ new_args.avail_addr % 2 = 0
          /\ new_args.used_addr % 4 = 0
          /\ RegionsDisjoint(new_args)
          /\ RegionsInRange(new_args)
    /\ new_result \notin {"idle", "pending", "Ok"} => vq = NoQueue

\* The largest queue that is accepted.
C20_Witness == new_result = "Ok" /\ new_args.size = 227


(***************************************************************************)
(* The operations of a Virtqueue, on a queue of QSize descriptors          *)
(***************************************************************************)

\* The queue size of the queue operated on.
QSize == 3

\* get_descriptor_ptr(index) is Ok.
ValidIndex(q, index) == index >= 0 /\ index < q.queue_size

\* alloc_desc_chain: the loop over the num descriptors, from `current` at
\* turn i.  It ends with the last descriptor in `current`, or with an error
\* at the first index that is no descriptor.
RECURSIVE AllocLoop(_, _, _, _)
AllocLoop(q, current, i, num) ==
    IF i = num THEN [ok |-> TRUE, desc |-> q.desc, current |-> current]
    ELSE IF ~ValidIndex(q, current)
    THEN [ok |-> FALSE, desc |-> q.desc, current |-> current]
    ELSE IF i = num - 1
    THEN AllocLoop([q EXCEPT !.desc[current].next = 0], current, i + 1, num)
    ELSE AllocLoop([q EXCEPT !.desc[current].next = current + 1],
                   current + 1, i + 1, num)

\* alloc_desc_chain(num): the result, the head on Ok, and the queue after.
alloc_desc_chain(q, num) ==
    IF num = 0 \/ num > q.queue_size \/ q.num_free < num
    THEN [result |-> "InvalidParam", head |-> 0, vq |-> q]
    ELSE LET l == AllocLoop(q, q.free_head, 0, num)
         IN  IF ~l.ok
             THEN [result |-> "DmaError", head |-> 0,
                   vq |-> [q EXCEPT !.desc = l.desc]]
             ELSE [result |-> "Ok", head |-> q.free_head,
                   vq |-> [q EXCEPT !.desc = l.desc,
                                    !.free_head = (l.current + 1) % q.queue_size,
                                    !.num_free = q.num_free - num]]

\* free_desc_chain: the walk to the end of the chain.  It stops at a
\* descriptor whose next is 0, or at an index that is no descriptor; a walk
\* that has gone through more descriptors than the queue has does not stop.
RECURSIVE FreeWalk(_, _, _)
FreeWalk(q, current, count) ==
    IF count > q.queue_size THEN [stops |-> FALSE, current |-> current, count |-> count]
    ELSE IF ~ValidIndex(q, current)
    THEN [stops |-> TRUE, current |-> current, count |-> count + 1]
    ELSE IF q.desc[current].next = 0
    THEN [stops |-> TRUE, current |-> current, count |-> count + 1]
    ELSE FreeWalk(q, q.desc[current].next, count + 1)

\* free_desc_chain(head): whether it returns, and the queue after.
free_desc_chain(q, h) ==
    LET w == FreeWalk(q, h, 0)
        linked == IF ValidIndex(q, w.current)
                  THEN [q EXCEPT !.desc[w.current].next = q.free_head]
                  ELSE q
    IN  [returns |-> w.stops,
         vq |-> [linked EXCEPT !.free_head = h,
                               !.num_free = (q.num_free + w.count) % U16]]

\* get_used_elem with the comparison of the two indices left out.
get_used_elem_unchecked(q, u) ==
    [some |-> TRUE, elem |-> u.ring[q.last_used_idx % q.queue_size],
     vq |-> [q EXCEPT !.last_used_idx = Add16(q.last_used_idx, 1)]]

\* get_used_elem: None, or Some(elem) with last_used_idx moved on by one.
get_used_elem(q, u) ==
    IF u.idx = q.last_used_idx
    THEN [some |-> FALSE, elem |-> [id |-> 0, len |-> 0], vq |-> q]
    ELSE IF q.last_used_idx % q.queue_size >= q.queue_size
    THEN [some |-> FALSE, elem |-> [id |-> 0, len |-> 0], vq |-> q]
    ELSE [some |-> TRUE, elem |-> u.ring[q.last_used_idx % q.queue_size],
          vq |-> [q EXCEPT !.last_used_idx = Add16(q.last_used_idx, 1)]]

\* A queue as Virtqueue::new leaves it, and one whose indices have come
\* close to the 16-bit wrap with every chain freed in the order allocated.
InitQueue ==
    /\ last_call = NoCall
    /\ new_args = [desc_addr |-> expected_desc_addr,
                   avail_addr |-> expected_desc_addr + 16 * QSize,
                   used_addr |-> expected_used_addr, size |-> QSize]
    /\ new_result = VirtqueueNew(new_args).result
    /\ \E b \in IdxStart :
          /\ vq = [VirtqueueNew(new_args).vq EXCEPT !.last_used_idx = b]
          /\ vq_used = [flags |-> 0, idx |-> b,
                        ring |-> [i \in 0..(QSize - 1) |-> [id |-> 0, len |-> 0]]]
    /\ chains = <<>>
    /\ unconsumed = 0

\* The chains allocated and not freed, at most this many at a time.
MaxChains == 2

\* The device publishes completions until used.idx has come to this value.
MaxUsedIdx == 2

\* A caller allocates a chain of num descriptors.
QAlloc ==
    /\ new_result = "Ok"
    /\ vq.num_free <= vq.queue_size
    /\ Len(chains) < MaxChains
    /\ \E num \in 1..QSize :
          LET r == alloc_desc_chain(vq, num)
          IN  /\ vq' = r.vq
              /\ chains' = IF r.result = "Ok"
                           THEN Append(chains, [head |-> r.head, num |-> num])
                           ELSE chains
              /\ last_call' = [op |-> "alloc", num |-> num, result |-> r.result,
                               head |-> r.head, before |-> vq]
    /\ UNCHANGED <<new_args, new_result, vq_used, unconsumed>>
    /\ UNCHANGED notQueueVars

\* A caller frees one of the chains it holds, in any order.
QFree ==
    /\ new_result = "Ok"
    /\ vq.num_free <= vq.queue_size
    /\ \E k \in 1..Len(chains) :
          LET r == free_desc_chain(vq, chains[k].head)
          IN  /\ vq' = r.vq
              /\ new_result' = IF r.returns THEN new_result ELSE "free_desc_chain loops"
              /\ last_call' = [op |-> "free", head |-> chains[k].head,
                               returns |-> r.returns, before |-> vq]
              /\ chains' = [j \in 1..(Len(chains) - 1) |->
                               IF j < k THEN chains[j] ELSE chains[j + 1]]
    /\ UNCHANGED <<new_args, vq_used, unconsumed>>
    /\ UNCHANGED notQueueVars

\* The device publishes a completion in the used ring.
QDeviceUse ==
    /\ new_result = "Ok"
    /\ unconsumed < QSize
    /\ vq_used.idx >= U16 - 2 \/ vq_used.idx < MaxUsedIdx
    /\ \E h \in 0..(QSize - 1) :
          vq_used' = [flags |-> vq_used.flags,
                      idx |-> Add16(vq_used.idx, 1),
                      ring |-> [vq_used.ring EXCEPT ![vq_used.idx % QSize] =
                                   [id |-> h, len |-> SECTOR_LEN + 1]]]
    /\ unconsumed' = unconsumed + 1
    /\ UNCHANGED <<new_args, new_result, vq, chains, last_call>>
    /\ UNCHANGED notQueueVars

\* The memory accesses and fences of one get_used_elem call, in program order
\* (queue.rs:318-343): the volatile read of used.idx; then, when an element
\* is returned, the volatile read of the ring entry, the Acquire fence and
\* the update of last_used_idx.
GetUsedElemEvents(some) ==
    IF some THEN <<"used.idx", "used.ring", "acq", "last_used_idx">>
            ELSE <<"used.idx">>

\* The driver calls get_used_elem.
QGetUsedElem ==
    /\ new_result = "Ok"
    /\ LET r == get_used_elem(vq, vq_used)
       IN  /\ vq' = r.vq
           /\ unconsumed' = IF r.some THEN unconsumed - 1 ELSE unconsumed
           /\ last_call' = [op |-> "get_used_elem", some |-> r.some,
                            elem |-> r.elem, before |-> vq, used |-> vq_used,
                            after |-> r.vq,
                            events |-> GetUsedElemEvents(r.some)]
    /\ UNCHANGED <<new_args, new_result, vq_used, chains>>
    /\ UNCHANGED notQueueVars

\* The used-ring scan of read_block_real (device.rs:580-616): every new
\* element is gone through and last_used_idx set to the used index read.
QScanUsed ==
    /\ new_result = "Ok"
    /\ LET current_used_idx == vq_used.idx
       IN  /\ current_used_idx # vq.last_used_idx
           /\ vq' = [vq EXCEPT !.last_used_idx = current_used_idx]
    /\ unconsumed' = 0
    /\ UNCHANGED <<new_args, new_result, vq_used, chains, last_call>>
    /\ UNCHANGED notQueueVars

\* The callers of alloc_desc_chain and free_desc_chain.
NextQueue == QAlloc \/ QFree

\* The device and the two ways the driver consumes the used ring.
NextUsed == QDeviceUse \/ QGetUsedElem \/ QScanUsed

\* A Virtqueue on its own, everything else at rest.
StartQueue == BlkAtRest /\ ElfIdle /\ BootIdle /\ SetupIdle /\ InitQueue

SpecQueue == StartQueue /\ [][NextQueue]_vars

SpecUsed == StartQueue /\ [][NextUsed]_vars

(***************************************************************************)
(* Properties of the Virtqueue operations                                  *)
(***************************************************************************)

\* C18: last_used_idx does not run ahead of used.idx: the distance from
\* last_used_idx to used.idx, modulo 2^16, is the number of completions the
\* device has published and the driver has not consumed.
C18_LastUsedBehindUsed ==
    new_result = "Ok" =>
        (vq_used.idx - vq.last_used_idx + 65536) % 65536 = unconsumed

\* get_used_elem has taken one of two completions, across the wrap of the
\* indices.
C18_Witness ==
    /\ new_result = "Ok"
    /\ unconsumed = 1
    /\ vq_used.idx = 0
    /\ vq.last_used_idx = 65535

\* The descriptors of an allocated chain.
Members(c) == c.head..(c.head + c.num - 1)

Allocated == UNION {Members(chains[k]) : k \in 1..Len(chains)}

\* The first n descriptors reached from d by following next.
RECURSIVE FreeList(_, _)
FreeList(d, n) ==
    IF n = 0 THEN <<>>
    ELSE <<d>> \o FreeList(IF ValidIndex(vq, d) THEN vq.desc[d].next ELSE d, n - 1)

\* C19: after any sequence of alloc_desc_chain and free_desc_chain calls,
\* following next from free_head visits exactly num_free distinct
\* descriptors, all of them free, and no descriptor belongs to two
\* allocated chains.
C19_FreeListIntact ==
    new_result # "idle" =>
        /\ new_result = "Ok"
        /\ vq.num_free <= vq.queue_size
        /\ LET l == FreeList(vq.free_head, vq.num_free)
           IN  /\ \A i \in 1..Len(l) : ValidIndex(vq, l[i]) /\ l[i] \notin Allocated
               /\ \A i, j \in 1..Len(l) : i # j => l[i] # l[j]
        /\ \A j, k \in 1..Len(chains) :
              j # k => Members(chains[j]) \cap Members(chains[k]) = {}

\* C28: the bulk read asks read_block only for sectors that exist on the
\* device: a turn of the read loop of load_kernel_raw is never about a
\* sector at or past the capacity, and the load does not end in IoError
\* when every sector of the disk has been staged.
C28_BulkReadWithinCapacity ==
    /\ (bpc = "load" /\ sector_offset < sectors_to_read(start_sector))
          => start_sector + sector_offset < config_capacity
    /\ (bpc = "shutdown" /\ start_sector + Len(staging) >= config_capacity)
          => "IoError" \notin {diag[i] : i \in 1..Len(diag)}

(***************************************************************************)
(* Properties of the memory shared with the device                         *)
(***************************************************************************)

\* The ring range 0x80070000-0x80072000 and the staging buffer
\* 0x81000000-0x81100000.
RING_RANGE_END == expected_used_addr + 4096
SAFE_BUFFER_BASE == 16777216

InDeviceRange(a) ==
    \/ expected_desc_addr <= a /\ a < RING_RANGE_END
    \/ SAFE_BUFFER_BASE <= a /\ a < SAFE_BUFFER_BASE + BUFFER_SIZE

\* C21: during segment materialization no byte of the ring range or of the
\* staging buffer is written.
C21_NoSegmentInDeviceRange ==
    [][\A a \in MemAddrs :
          (elf_result # "idle" /\ InDeviceRange(a)) => mem'[a] = mem[a]]_vars

\* The descriptors that belonged to an allocated chain before the last call
\* of alloc_desc_chain, which has appended its chain when it returned Ok.
AllocatedBefore ==
    LET n == IF last_call.result = "Ok" THEN Len(chains) - 1 ELSE Len(chains)
    IN  UNION {Members(chains[k]) : k \in 1..n}

\* C29: alloc_desc_chain(n) with 1 <= n <= num_free returns the head of a
\* chain of exactly n descriptors that were all free and reduces num_free by
\* n; with num_free < n it fails with QueueFull; and a failing call leaves
\* num_free, free_head and every next field unchanged.
C29_AllocChainContract ==
    (new_result = "Ok" /\ last_call.op = "alloc") =>
        LET b == last_call.before
            n == last_call.num
            l == FreeList(last_call.head, n)
        IN  /\ n <= b.num_free =>
                  /\ last_call.result = "Ok"
                  /\ \A i \in 1..n : ValidIndex(vq, l[i]) /\ l[i] \notin AllocatedBefore
                  /\ \A i, j \in 1..n : i # j => l[i] # l[j]
                  /\ vq.desc[l[n]].next = 0
                  /\ vq.num_free = b.num_free - n
            /\ b.num_free < n => last_call.result = "QueueFull"
            /\ last_call.result # "Ok" =>
                  /\ vq.num_free = b.num_free
                  /\ vq.free_head = b.free_head
                  /\ \A i \in DOMAIN vq.desc : vq.desc[i].next = b.desc[i].next

(***************************************************************************)
(* VirtioError and its classification (virtio/error.rs)                    *)
(***************************************************************************)

\* The variants of VirtioError.
VirtioErrors ==
    {"DeviceNotFound", "InvalidMagic", "UnsupportedVersion", "UnsupportedDevice",
     "DeviceError",
     "InitFailed", "FeaturesNegotiationFailed", "QueueSetupFailed",
     "ConfigAccessFailed",
     "DmaError", "IoError", "BufferTooSmall", "InvalidParam",
     "QueueFull", "QueueEmpty", "DescriptorChainTooLong", "InvalidDescriptor",
     "Timeout", "NotReady", "AlreadyInitialized",
     "FileSystemError", "CryptoError", "NetworkError", "BlockError",
     "OutOfMemory", "MemoryNotAligned",
     "InternalError", "UnsupportedOperation"}

\* VirtioError::is_recoverable.
is_recoverable(e) == e \in {"QueueFull", "Timeout", "NotReady", "BufferTooSmall"}

\* A requires_reset that also names Timeout.
requires_reset_with_timeout(e) ==
    e \in {"InitFailed", "FeaturesNegotiationFailed", "QueueSetupFailed",
           "DmaError", "InternalError", "Timeout"}

\* VirtioError::requires_reset.
requires_reset(e) ==
    e \in {"InitFailed", "FeaturesNegotiationFailed", "QueueSetupFailed",
           "DmaError", "InternalError"}

\* The errors classified in one behaviour.
MaxErrors == 2

\* A caller asks both questions about an error.
ClassifyError ==
    /\ Len(classified) < MaxErrors
    /\ \E e \in VirtioErrors :
          classified' = Append(classified,
                               [err |-> e,
                                recoverable |-> is_recoverable(e),
                                reset |-> requires_reset(e)])
    /\ UNCHANGED notErrVars

\* Everything at rest, no error classified yet.
StartError == BlkAtRest /\ ElfIdle /\ BootIdle /\ QueueIdle /\ SetupIdle

SpecError == StartError /\ [][ClassifyError]_vars

\* C24: QueueFull is recoverable and requires no reset, InitFailed requires a
\* reset and is not recoverable, and no variant is both recoverable and in
\* need of a reset.
C24_ClassificationConsistent ==
    \A i \in 1..Len(classified) :
        LET c == classified[i]
        IN  /\ c.err = "QueueFull" => (c.recoverable /\ ~c.reset)
            /\ c.err = "InitFailed" => (c.reset /\ ~c.recoverable)
            /\ ~(c.recoverable /\ c.reset)

\* Both named errors have been classified.
C24_Witness ==
    /\ Len(classified) = 2
    /\ classified[1].err = "QueueFull" /\ classified[1].recoverable
    /\ classified[2].err = "InitFailed" /\ classified[2].reset

(***************************************************************************)
(* VirtioBlk::probe_all_devices (device.rs:102-185)                        *)
(***************************************************************************)

\* The candidate bases probed, of the eight of possible_bases.
NumSlots == 3

VIRT_MAGIC == 1953655158          \* 0x74726976
BLOCK_DEVICE_ID == 2
UNUSED_DEVICE_ID == 0
NET_DEVICE_ID == 1                \* a device id that is neither 0 nor 2

\* possible_bases[k - 1]: 0x10001000, 0x10002000, ...
possible_bases(k) == 268439552 + 4096 * (k - 1)

\* The candidate a base belongs to.
SlotOf(base_addr) == (base_addr - 268439552) \div 4096 + 1

\* What a candidate base may hold: no virtio-mmio transport (with the bytes
\* of a block device after the magic), a device that is no block device, an
\* unused slot, or a block device; initialize() succeeds on it or not.
SlotKinds ==
    {k \in [magic : {VIRT_MAGIC, 0},
            device_id : {UNUSED_DEVICE_ID, NET_DEVICE_ID, BLOCK_DEVICE_ID},
            init_ok : BOOLEAN] :
        /\ k.magic # VIRT_MAGIC => (k.device_id = BLOCK_DEVICE_ID /\ k.init_ok)
        /\ k.device_id = NET_DEVICE_ID => k.init_ok}

\* The first loop: found_devices after the candidates k, k + 1, ... have
\* been read.
RECURSIVE ScanFound(_, _)
ScanFound(sl, k) ==
    IF k > Len(sl) THEN <<>>
    ELSE LET magic == sl[k].magic
             device_id == sl[k].device_id
         IN  IF magic = VIRT_MAGIC
                /\ device_id \in {BLOCK_DEVICE_ID, UNUSED_DEVICE_ID}
             THEN <<[base_addr |-> possible_bases(k), device_id |-> device_id]>>
                      \o ScanFound(sl, k + 1)
             ELSE ScanFound(sl, k + 1)

\* probe_all_devices is entered.
InitProbe ==
    /\ slots \in [1..NumSlots -> SlotKinds]
    /\ probe_pc = "scan"
    /\ probe_i = 0
    /\ found_devices = <<>>
    /\ init_calls = <<>>
    /\ adopted = {}

\* The loop over possible_bases (device.rs:111-139).
ProbeScan ==
    /\ probe_pc = "scan"
    /\ found_devices' = ScanFound(slots, 1)
    /\ probe_pc' = "block"
    /\ probe_i' = 0
    /\ UNCHANGED <<slots, init_calls, adopted>>
    /\ UNCHANGED notProbeVars

\* One turn of a loop over found_devices that tries the entries with the
\* device id `wanted`; `after` is where probe_all_devices goes on when the
\* loop is over.
ProbeTry(wanted, after) ==
    IF probe_i >= Len(found_devices)
    THEN /\ probe_pc' = after
         /\ probe_i' = 0
         /\ UNCHANGED <<init_calls, adopted>>
    ELSE LET f == found_devices[probe_i + 1]
         IN  IF f.device_id # wanted
             THEN /\ probe_i' = probe_i + 1
                  /\ UNCHANGED <<probe_pc, init_calls, adopted>>
             ELSE /\ init_calls' = Append(init_calls, f.base_addr)
                  /\ IF slots[SlotOf(f.base_addr)].init_ok
                     THEN /\ adopted' = {f.base_addr}
                          /\ probe_pc' = "done"
                          /\ UNCHANGED probe_i
                     ELSE /\ probe_i' = probe_i + 1
                          /\ UNCHANGED <<probe_pc, adopted>>

\* The loop that tries the block devices (device.rs:141-160).
ProbeTryBlock ==
    /\ probe_pc = "block"
    /\ ProbeTry(BLOCK_DEVICE_ID, "generic")
    /\ UNCHANGED <<slots, found_devices>>
    /\ UNCHANGED notProbeVars

\* The loop that falls back to the entries with device id 0, and None after
\* it (device.rs:162-185).
ProbeTryGeneric ==
    /\ probe_pc = "generic"
    /\ ProbeTry(UNUSED_DEVICE_ID, "done")
    /\ UNCHANGED <<slots, found_devices>>
    /\ UNCHANGED notProbeVars

NextProbe == ProbeScan \/ ProbeTryBlock \/ ProbeTryGeneric

\* probe_all_devices entered, everything else at rest.
StartProbe ==
    BlkAtRest /\ ElfIdle /\ BootIdle /\ QueueIdle /\ DevInitIdle /\ ErrIdle
        /\ ParseIdle /\ TrapIdle /\ InitProbe

SpecProbe == StartProbe /\ [][NextProbe]_vars

(***************************************************************************)
(* Properties of probe_all_devices                                         *)
(***************************************************************************)

\* The candidates that hold a block device on which initialize() succeeds.
Adoptable ==
    {k \in 1..NumSlots :
        /\ slots[k].magic = VIRT_MAGIC
        /\ slots[k].device_id = BLOCK_DEVICE_ID
        /\ slots[k].init_ok}

\* C22: probe_all_devices adopts only a candidate with the virtio magic and
\* device id 2, never initializes or adopts a slot with device id 0, adopts
\* the lowest candidate that completes initialization, and returns None when
\* there is none.
C22_ProbeAdoptsLowestBlockDevice ==
    /\ \A i \in 1..Len(init_calls) :
          slots[SlotOf(init_calls[i])].device_id # UNUSED_DEVICE_ID
    /\ \A b \in adopted : SlotOf(b) \in Adoptable
    /\ probe_pc = "done" =>
          adopted = IF Adoptable = {} THEN {}
                    ELSE {possible_bases(CHOOSE k \in Adoptable :
                                             \A j \in Adoptable : k <= j)}

(***************************************************************************)
(* VirtioBlk::initialize (device.rs:225-384, memory.rs:14-48)              *)
(*                                                                         *)
(* mmio records every access of a register of the device, in program       *)
(* order, with the value written or read.                                  *)
(***************************************************************************)

\* Register offsets (config.rs:22-33).
VIRTIO_DRIVER_FEATURES == 32
VIRTIO_GUEST_PAGE_SIZE == 40
VIRTIO_QUEUE_SEL == 48
VIRTIO_QUEUE_NUM_MAX == 52
VIRTIO_QUEUE_NUM == 56
VIRTIO_QUEUE_PFN == 64
VIRTIO_STATUS == 112

\* Bits of STATUS (config.rs:37-40).
VIRTIO_STATUS_ACKNOWLEDGE == 1
VIRTIO_STATUS_DRIVER == 2
VIRTIO_STATUS_DRIVER_OK == 4
VIRTIO_STATUS_FEATURES_OK == 8

StatusBits ==
    {VIRTIO_STATUS_ACKNOWLEDGE, VIRTIO_STATUS_DRIVER, VIRTIO_STATUS_DRIVER_OK,
     VIRTIO_STATUS_FEATURES_OK}

\* value & bit != 0, for a bit that is a power of two.
HasBit(value, bit) == (value \div bit) % 2 = 1

\* value | bit.
OrBit(value, bit) == IF HasBit(value, bit) THEN value ELSE value + bit

\* value & mask, for a mask given as a set of bits.
RECURSIVE MaskBits(_, _)
MaskBits(value, mask) ==
    IF mask = {} THEN 0
    ELSE LET b == CHOOSE x \in mask : TRUE
         IN  (IF HasBit(value, b) THEN b ELSE 0) + MaskBits(value, mask \ {b})

\* The page frame number of the physical address whose offset from the base
\* of DRAM is a: (0x80000000 + a) >> 12.
Pfn(a) == 524288 + a \div 4096

\* The page frame number initialize_virtqueue_legacy writes (device.rs:338).
HARDCODED_PFN == 524400

\* The queue size initialize_virtqueue_legacy uses (device.rs:329); the
\* queue_size of the read path is the same number.
INIT_QUEUE_SIZE == queue_size

\* allocate_queue_memory(queue_size) (memory.rs:14-48).
allocate_queue_memory(size) ==
    LET desc_addr == expected_desc_addr
        avail_addr == desc_addr + size * 16
        used_addr == expected_used_addr
    IN  IF desc_addr % 16 # 0 \/ avail_addr % 2 # 0 \/ used_addr % 4 # 0
           \/ desc_addr + size * 16 > used_addr
           \/ avail_addr + 6 + size * 2 > used_addr
        THEN [result |-> "DmaError", desc_addr |-> 0, avail_addr |-> 0, used_addr |-> 0]
        ELSE [result |-> "Ok", desc_addr |-> desc_addr, avail_addr |-> avail_addr,
              used_addr |-> used_addr]

\* The devices initialize may meet: the bits of STATUS the device keeps when
\* they are written, the QUEUE_NUM_MAX it reports for queue 0, and whether
\* QUEUE_PFN reads back what was written or 0.
Devices ==
    [status_mask : SUBSET StatusBits,
     queue_num_max : {0, 1, 2, 8},
     pfn_accepted : BOOLEAN]

Write(reg, val) == [op |-> "write", reg |-> reg, val |-> val]
Read(reg, val) == [op |-> "read", reg |-> reg, val |-> val]

\* STATUS after the driver has written value to it.
StatusAfterWrite(value) == MaskBits(value, dev.status_mask)

\* What QUEUE_PFN reads after pfn has been written.
PfnReadback(pfn) == IF dev.pfn_accepted THEN pfn ELSE 0

\* initialize is entered on a handle as probe_all_devices builds it
\* (device.rs:145-153).
InitDevInit ==
    /\ ipc = "entered"
    /\ dev \in Devices
    /\ status_reg \in {0, VIRTIO_STATUS_ACKNOWLEDGE + VIRTIO_STATUS_DRIVER}
    /\ mmio = <<>>
    /\ init_result = "none"
    /\ initialized = FALSE
    /\ queue_ready = FALSE

\* Reset, ACKNOWLEDGE, DRIVER and the read-back (device.rs:231-249).
InitReset ==
    /\ ipc = "entered"
    /\ LET both == VIRTIO_STATUS_ACKNOWLEDGE + VIRTIO_STATUS_DRIVER
           after_driver == StatusAfterWrite(both)
       IN  /\ mmio' = mmio \o <<Write(VIRTIO_STATUS, 0),
                                 Write(VIRTIO_STATUS, VIRTIO_STATUS_ACKNOWLEDGE),
                                 Write(VIRTIO_STATUS, both),
                                 Read(VIRTIO_STATUS, after_driver)>>
           /\ status_reg' = after_driver
           /\ IF MaskBits(after_driver, {VIRTIO_STATUS_ACKNOWLEDGE, VIRTIO_STATUS_DRIVER})
                    # both
              THEN init_result' = "InitFailed" /\ ipc' = "done"
              ELSE init_result' = init_result /\ ipc' = "features"
    /\ UNCHANGED <<dev, initialized, queue_ready>>
    /\ UNCHANGED notInitVars

\* feature_negotiation_legacy (device.rs:293-320): it returns Ok whatever
\* the read-back shows.
FeatureNegotiationLegacy ==
    /\ ipc = "features"
    /\ LET driver_features == 0
           current_status == OrBit(status_reg, VIRTIO_STATUS_FEATURES_OK)
           new_status == StatusAfterWrite(current_status)
       IN  /\ mmio' = mmio \o <<Write(VIRTIO_DRIVER_FEATURES, driver_features),
                                 Read(VIRTIO_STATUS, status_reg),
                                 Write(VIRTIO_STATUS, current_status),
                                 Read(VIRTIO_STATUS, new_status)>>
           /\ status_reg' = new_status
    /\ ipc' = "page_size"
    /\ UNCHANGED <<dev, init_result, initialized, queue_ready>>
    /\ UNCHANGED notInitVars

\* set_guest_page_size, read_configuration_simple and the write of QUEUE_SEL
\* (device.rs:258-265).
SetGuestPageSize ==
    /\ ipc = "page_size"
    /\ mmio' = mmio \o <<Write(VIRTIO_GUEST_PAGE_SIZE, 4096),
                         Write(VIRTIO_QUEUE_SEL, 0)>>
    /\ ipc' = "queue"
    /\ UNCHANGED <<dev, status_reg, init_result, initialized, queue_ready>>
    /\ UNCHANGED notInitVars

\* initialize_virtqueue_legacy (device.rs:322-384).
InitializeVirtqueueLegacy ==
    /\ ipc = "queue"
    /\ LET size == INIT_QUEUE_SIZE
           m == allocate_queue_memory(size)
           pfn == HARDCODED_PFN
           readback_pfn == PfnReadback(pfn)
           q == VirtqueueNew([desc_addr |-> m.desc_addr, avail_addr |-> m.avail_addr,
                              used_addr |-> m.used_addr, size |-> size])
       IN  IF m.result # "Ok"
           THEN /\ mmio' = mmio \o <<Write(VIRTIO_QUEUE_SEL, 0),
                                     Write(VIRTIO_QUEUE_NUM, size)>>
                /\ init_result' = m.result
                /\ ipc' = "done"
                /\ UNCHANGED queue_ready
           ELSE /\ mmio' = mmio \o <<Write(VIRTIO_QUEUE_SEL, 0),
                                     Write(VIRTIO_QUEUE_NUM, size),
                                     Write(VIRTIO_QUEUE_SEL, 0),
                                     Write(VIRTIO_QUEUE_PFN, pfn),
                                     Write(VIRTIO_QUEUE_SEL, 0),
                                     Read(VIRTIO_QUEUE_PFN, readback_pfn),
                                     Write(VIRTIO_QUEUE_SEL, 0),
                                     Read(VIRTIO_QUEUE_PFN, readback_pfn)>>
                /\ IF q.result = "Ok"
                   THEN /\ queue_ready' = TRUE
                        /\ ipc' = "driver_ok"
                        /\ UNCHANGED init_result
                   ELSE /\ init_result' = q.result
                        /\ ipc' = "done"
                        /\ UNCHANGED queue_ready
    /\ UNCHANGED <<dev, status_reg, initialized>>
    /\ UNCHANGED notInitVars

\* DRIVER_OK and the final read-back (device.rs:275-290).
SetDriverOk ==
    /\ ipc = "driver_ok"
    /\ LET final_status == StatusAfterWrite(VIRTIO_STATUS_DRIVER_OK)
       IN  /\ mmio' = mmio \o <<Write(VIRTIO_STATUS, VIRTIO_STATUS_DRIVER_OK),
                                 Read(VIRTIO_STATUS, final_status)>>
           /\ status_reg' = final_status
           /\ IF ~HasBit(final_status, VIRTIO_STATUS_DRIVER_OK)
              THEN init_result' = "InitFailed" /\ UNCHANGED initialized
              ELSE init_result' = "Ok" /\ initialized' = TRUE
    /\ ipc' = "done"
    /\ UNCHANGED <<dev, queue_ready>>
    /\ UNCHANGED notInitVars

NextDevInit ==
    \/ InitReset
    \/ FeatureNegotiationLegacy
    \/ SetGuestPageSize
    \/ InitializeVirtqueueLegacy
    \/ SetDriverOk

\* initialize entered, everything else at rest.
StartDevInit ==
    BlkAtRest /\ ElfIdle /\ BootIdle /\ QueueIdle /\ ProbeIdle /\ ErrIdle
        /\ ParseIdle /\ TrapIdle /\ InitDevInit

SpecDevInit == StartDevInit /\ [][NextDevInit]_vars

(***************************************************************************)
(* Properties of initialize                                                *)
(***************************************************************************)

\* Where in mmio a register is written, and where with a given value.
W(reg) == {i \in 1..Len(mmio) : mmio[i].op = "write" /\ mmio[i].reg = reg}
WV(reg, val) == {i \in W(reg) : mmio[i].val = val}

\* Where a register is read.
R(reg) == {i \in 1..Len(mmio) : mmio[i].op = "read" /\ mmio[i].reg = reg}

\* The writes of STATUS that set a bit.
StatusWrites(bit) == {i \in W(VIRTIO_STATUS) : HasBit(mmio[i].val, bit)}

SetMin(S) == CHOOSE x \in S : \A y \in S : x <= y
SetMax(S) == CHOOSE x \in S : \A y \in S : x >= y

\* Every write of STATUS at a place of S is followed at once by a read of
\* STATUS that shows the bits.
ReadBackShows(S, bits) ==
    \A i \in S :
        /\ i + 1 \in R(VIRTIO_STATUS)
        /\ \A b \in bits : HasBit(mmio[i + 1].val, b)

\* The device has cleared FEATURES_OK: the read that follows the write of
\* the bit does not show it.
FeaturesOkCleared ==
    /\ StatusWrites(VIRTIO_STATUS_FEATURES_OK) # {}
    /\ ~ReadBackShows(StatusWrites(VIRTIO_STATUS_FEATURES_OK),
                      {VIRTIO_STATUS_FEATURES_OK})

\* A read of QUEUE_PFN has returned another value than the one written.
PfnMismatch ==
    \E i \in R(VIRTIO_QUEUE_PFN) : WV(VIRTIO_QUEUE_PFN, mmio[i].val) = {}

\* The steps of initialize as writes of registers, in the order of the
\* specification.
InitStages ==
    <<WV(VIRTIO_STATUS, 0),
      WV(VIRTIO_STATUS, VIRTIO_STATUS_ACKNOWLEDGE),
      WV(VIRTIO_STATUS, VIRTIO_STATUS_ACKNOWLEDGE + VIRTIO_STATUS_DRIVER),
      W(VIRTIO_DRIVER_FEATURES),
      StatusWrites(VIRTIO_STATUS_FEATURES_OK),
      WV(VIRTIO_GUEST_PAGE_SIZE, 4096),
      W(VIRTIO_QUEUE_NUM),
      W(VIRTIO_QUEUE_PFN),
      StatusWrites(VIRTIO_STATUS_DRIVER_OK)>>

\* A stage is reached only after every write of the stage before it.
StagesInOrder ==
    \A k \in 2..Len(InitStages) :
        InitStages[k] # {} =>
            /\ InitStages[k - 1] # {}
            /\ SetMax(InitStages[k - 1]) < SetMin(InitStages[k])

\* Queue 0 is selected before its size is written.
QueueSelectedFirst ==
    W(VIRTIO_QUEUE_NUM) # {} =>
        /\ WV(VIRTIO_QUEUE_SEL, 0) # {}
        /\ SetMin(WV(VIRTIO_QUEUE_SEL, 0)) < SetMin(W(VIRTIO_QUEUE_NUM))

\* A step is attempted only if the steps before it succeeded: feature
\* negotiation after a read-back with ACKNOWLEDGE and DRIVER, the page size
\* and the queue after a read-back with FEATURES_OK, DRIVER_OK after a
\* QUEUE_PFN that read back as written.
StepsGated ==
    /\ W(VIRTIO_DRIVER_FEATURES) # {} =>
          ReadBackShows(WV(VIRTIO_STATUS,
                           VIRTIO_STATUS_ACKNOWLEDGE + VIRTIO_STATUS_DRIVER),
                        {VIRTIO_STATUS_ACKNOWLEDGE, VIRTIO_STATUS_DRIVER})
    /\ W(VIRTIO_GUEST_PAGE_SIZE) # {} => ~FeaturesOkCleared
    /\ W(VIRTIO_QUEUE_NUM) # {} => ~FeaturesOkCleared
    /\ StatusWrites(VIRTIO_STATUS_DRIVER_OK) # {} => ~PfnMismatch

\* initialized is set only after a read-back of STATUS with DRIVER_OK.
InitializedAfterDriverOk ==
    initialized =>
        /\ StatusWrites(VIRTIO_STATUS_DRIVER_OK) # {}
        /\ ReadBackShows(StatusWrites(VIRTIO_STATUS_DRIVER_OK),
                         {VIRTIO_STATUS_DRIVER_OK})

\* C23: initialize performs its steps in the order reset, ACKNOWLEDGE,
\* DRIVER, feature negotiation, GUEST_PAGE_SIZE = 4096, queue 0 setup
\* (QUEUE_SEL, QUEUE_NUM, QUEUE_PFN), DRIVER_OK; a step is attempted only if
\* every earlier one succeeded; and initialized becomes true only after a
\* read-back of STATUS that shows DRIVER_OK.
C23_InitializeStepOrder ==
    ipc # "idle" =>
        /\ StagesInOrder
        /\ QueueSelectedFirst
        /\ StepsGated
        /\ InitializedAfterDriverOk

\* C25: feature negotiation writes 0 to DRIVER_FEATURES, sets FEATURES_OK
\* and reads STATUS back; when the device has cleared FEATURES_OK,
\* initialize fails with FeaturesNegotiationFailed, no register of the queue
\* is written and initialized stays false.
C25_FeaturesRejectedFails ==
    /\ StatusWrites(VIRTIO_STATUS_FEATURES_OK) # {} =>
          /\ WV(VIRTIO_DRIVER_FEATURES, 0) # {}
          /\ W(VIRTIO_DRIVER_FEATURES) = WV(VIRTIO_DRIVER_FEATURES, 0)
          /\ ReadBackShows(StatusWrites(VIRTIO_STATUS_FEATURES_OK), {})
    /\ FeaturesOkCleared =>
          /\ ipc = "done" /\ init_result = "FeaturesNegotiationFailed"
          /\ W(VIRTIO_QUEUE_NUM) = {} /\ W(VIRTIO_QUEUE_PFN) = {}
          /\ ~queue_ready
          /\ ~initialized

\* C26: the value written to QUEUE_PFN is the base of the descriptor table
\* shifted right by 12; when QUEUE_PFN reads back another value, the queue
\* setup fails with QueueSetupFailed, no virtqueue is installed and
\* initialized stays false.
C26_PfnReadbackChecked ==
    /\ \A i \in W(VIRTIO_QUEUE_PFN) :
          mmio[i].val = Pfn(allocate_queue_memory(INIT_QUEUE_SIZE).desc_addr)
    /\ PfnMismatch =>
          /\ ipc = "done" /\ init_result = "QueueSetupFailed"
          /\ ~queue_ready
          /\ ~initialized

\* C27: the queue size written to QUEUE_NUM does not exceed the
\* QUEUE_NUM_MAX of the device, which the driver has read after selecting
\* queue 0.
C27_QueueNumWithinMax ==
    \A i \in W(VIRTIO_QUEUE_NUM) :
        /\ mmio[i].val <= dev.queue_num_max
        /\ \E j \in R(VIRTIO_QUEUE_NUM_MAX) :
              /\ j < i
              /\ mmio[j].val = dev.queue_num_max
              /\ \E k \in WV(VIRTIO_QUEUE_SEL, 0) : k < j

(***************************************************************************)
(* free_desc_chain on chains the driver has written with set_descriptor    *)
(* (queue.rs:253-271, 348-374)                                             *)
(***************************************************************************)

\* Virtqueue::set_descriptor on the queue q.
SetDescriptorOf(q, index, addr, len, flags, next) ==
    IF ~ValidIndex(q, index) THEN q
    ELSE [q EXCEPT !.desc[index] =
             [addr |-> addr, len |-> len, flags |-> flags, next |-> next]]

\* The chains a driver may write: their members in order, any descriptors of
\* the queue, each at most once.
ChainShapes ==
    {c \in UNION {[1..n -> 0..(QSize - 1)] : n \in 1..QSize} :
        \A i, j \in 1..Len(c) : i # j => c[i] # c[j]}

\* The set_descriptor calls that write the chain c from its k-th member on:
\* every member but the last has the NEXT flag and the index of its
\* successor, the last has the flag clear and tail_next in its next field.
RECURSIVE WriteChain(_, _, _, _)
WriteChain(q, c, k, tail_next) ==
    IF k > Len(c) THEN q
    ELSE IF k = Len(c)
    THEN SetDescriptorOf(q, c[k], buffer_addr, SECTOR_LEN + 1,
                         VIRTQ_DESC_F_WRITE, tail_next)
    ELSE WriteChain(SetDescriptorOf(q, c[k], req_addr, 16, VIRTQ_DESC_F_NEXT,
                                    c[k + 1]),
                    c, k + 1, tail_next)

\* The driver writes a chain over descriptors of the chain it holds.
BuildChain ==
    /\ new_result = "Ok"
    /\ last_call.op = "alloc"
    /\ Len(chains) = 1
    /\ \E c \in ChainShapes, tail_next \in 0..(QSize - 1) :
          /\ \A i \in 1..Len(c) : c[i] \in Members(chains[1])
          /\ vq' = WriteChain(vq, c, 1, tail_next)
          /\ chains' = <<[head |-> c[1], num |-> Len(c)]>>
          /\ last_call' = [op |-> "set_descriptor", head |-> c[1], before |-> vq]
    /\ UNCHANGED <<new_args, new_result, vq_used, unconsumed>>
    /\ UNCHANGED notQueueVars

\* The driver gives the chain it has written back with free_desc_chain.
Reclaim ==
    /\ new_result = "Ok"
    /\ last_call.op = "set_descriptor"
    /\ LET r == free_desc_chain(vq, chains[1].head)
       IN  /\ vq' = r.vq
           /\ new_result' = IF r.returns THEN new_result ELSE "free_desc_chain loops"
           /\ last_call' = [op |-> "free", head |-> chains[1].head,
                            returns |-> r.returns, before |-> vq]
    /\ chains' = <<>>
    /\ UNCHANGED <<new_args, vq_used, unconsumed>>
    /\ UNCHANGED notQueueVars

NextReclaim == QAlloc \/ BuildChain \/ Reclaim

SpecReclaim == StartQueue /\ [][NextReclaim]_vars

\* The chain that starts at d in the queue q: its members up to the first
\* descriptor whose NEXT flag is clear, at most n + 1 of them.
RECURSIVE FlagChain(_, _, _)
FlagChain(q, d, n) ==
    IF n > 0 /\ ValidIndex(q, d) /\ HasBit(q.desc[d].flags, VIRTQ_DESC_F_NEXT)
    THEN <<d>> \o FlagChain(q, q.desc[d].next, n - 1)
    ELSE <<d>>

\* C30: free_desc_chain(head) on a well-formed chain returns, links the next
\* of the chain's terminator, the first descriptor whose NEXT flag is clear,
\* to the previous free_head, sets free_head = head and increases num_free
\* by the number of descriptors of the chain.
C30_FreeChainByNextFlag ==
    last_call.op = "free" =>
        LET b == last_call.before
            c == FlagChain(b, last_call.head, QSize)
            tail == c[Len(c)]
        IN  /\ last_call.returns
            /\ vq.desc[tail].next = b.free_head
            /\ vq.free_head = last_call.head
            /\ vq.num_free = b.num_free + Len(c)

(***************************************************************************)
(* get_used_elem: what it returns and the order of its accesses            *)
(***************************************************************************)

\* Position of the first occurrence of e in the event sequence ev, or 0.
FirstAt(ev, e) ==
    IF \E i \in 1..Len(ev) : ev[i] = e
    THEN CHOOSE i \in 1..Len(ev) : ev[i] = e /\ \A j \in 1..(i - 1) : ev[j] # e
    ELSE 0

\* C31: get_used_elem returns None exactly when used.idx equals
\* last_used_idx, and then changes nothing; otherwise it returns
\* used.ring[last_used_idx mod Q] and moves last_used_idx on by exactly one,
\* wrapping at 2^16; and the Acquire fence comes after the read of used.idx
\* and before the read of the used element.
C31_GetUsedElemContract ==
    last_call.op = "get_used_elem" =>
        LET b == last_call.before
            u == last_call.used
            ev == last_call.events
        IN  /\ (~last_call.some) <=> (u.idx = b.last_used_idx)
            /\ (~last_call.some) => last_call.after = b
            /\ last_call.some =>
                  /\ last_call.elem = u.ring[b.last_used_idx % b.queue_size]
                  /\ last_call.after =
                        [b EXCEPT !.last_used_idx = (b.last_used_idx + 1) % U16]
                  /\ FirstAt(ev, "used.idx") < FirstAt(ev, "acq")
                  /\ FirstAt(ev, "acq") < FirstAt(ev, "used.ring")

(***************************************************************************)
(* ElfParser::new and ElfParser::load_segments on any byte slice           *)
(* (elf_parser.rs:52-147).  The slice is given by the header fields the    *)
(* parser reads or the specification names, its length, and the program    *)
(* header found at each index of the table.  The callback is any           *)
(* FnMut(u64, &[u8], u64): the slice handed to it is recorded.  Sizes and  *)
(* offsets are u64/usize values in two's complement as above.              *)
(***************************************************************************)
ParsePhnum == 1        \* program headers of the images parsed here

ELFCLASS64 == 2                   \* e_ident[4] of a 64-bit image
ELFCLASS32 == 1
ELFDATA2LSB == 1                  \* e_ident[5] of a little-endian image
ELFDATA2MSB == 2
EHDR32_SIZE == 52                 \* e_ehsize of an ELF32 image
PHDR32_SIZE == 32                 \* e_phentsize of an ELF32 image

\* Program headers of the slices parsed here: file offsets at the segment
\* data and at 2^64 - 1, sizes 0, 1 and 2^64 - 1.
ParsePhdrs ==
    [p_type : {PT_LOAD, PT_NOTE},
     p_offset : {EHDR_SIZE + PHDR_SIZE * ParsePhnum, U64_MAX},
     p_vaddr : {KernelAddr},
     p_filesz : {0, 1, U64_MAX},
     p_memsz : {1}]

\* The byte slices: with or without the magic, of either class and byte
\* order, with the header sizes of ELF64 or ELF32, the program header table
\* after the ELF header, past the end of the slice or at 2^64 - 56, and a
\* length of one byte less than an ELF header up to a whole image.
ElfImages ==
    [magic : {ELF_MAGIC, <<127, 69, 76, 71>>},
     ei_class : {ELFCLASS64, ELFCLASS32},
     ei_data : {ELFDATA2LSB, ELFDATA2MSB},
     e_ehsize : {EHDR_SIZE, EHDR32_SIZE},
     e_phentsize : {PHDR_SIZE, PHDR32_SIZE},
     e_phoff : {EHDR_SIZE, 4096, 0 - PHDR_SIZE},
     e_phnum : 0..ParsePhnum,
     len : {EHDR_SIZE - 1, EHDR_SIZE, EHDR_SIZE + PHDR_SIZE * ParsePhnum,
            EHDR_SIZE + PHDR_SIZE * ParsePhnum + 1},
     phdrs : [1..ParsePhnum -> ParsePhdrs]]

\* ElfParser::new (elf_parser.rs:52-74): the two struct sizes are 64 and 56
\* by #[repr(C)], so only the length and the magic decide.
ElfParserNewOn(img) ==
    IF EHDR_SIZE # 64 THEN "ErrEhdrSize"
    ELSE IF PHDR_SIZE # 56 THEN "ErrPhdrSize"
    ELSE IF img.len < EHDR_SIZE THEN "ErrTooSmall"
    ELSE IF img.magic # ELF_MAGIC THEN "ErrMagic"
    ELSE "Ok"

\* The loop of load_segments from index i on (elf_parser.rs:97-143), with hs
\* the program header read at each index; acc are the accesses so far.
RECURSIVE LoadSegmentsFrom(_, _, _, _)
LoadSegmentsFrom(img, hs, i, acc) ==
    IF i >= img.e_phnum THEN [result |-> "Ok", accesses |-> acc]
    ELSE
    LET phdr_offset == img.e_phoff + i * img.e_phentsize
        h == hs[i + 1]
        readable_size == ReadableSize(h.p_offset, h.p_filesz, img.len)
        read == Append(acc, [kind |-> "phdr", start |-> phdr_offset,
                             n |-> PHDR_SIZE])
    IN  IF UGt(phdr_offset + img.e_phentsize, img.len)
        THEN [result |-> "ErrPhdr", accesses |-> acc]
        ELSE IF UGt(phdr_offset + PHDR_SIZE, img.len)
        THEN [result |-> "ErrPhdrData", accesses |-> acc]
        ELSE IF h.p_type # PT_LOAD
        THEN LoadSegmentsFrom(img, hs, i + 1, read)
        ELSE IF UGt(h.p_offset, img.len)
        THEN [result |-> "ErrSegmentOffset", accesses |-> read]
        ELSE IF UGt(readable_size, 0)
                /\ ~SliceInBounds(h.p_offset, readable_size, img.len)
        THEN [result |-> "panic", accesses |-> read]
        ELSE LoadSegmentsFrom(img, hs, i + 1,
                 Append(read, [kind |-> "segment",
                               start |-> IF UGt(readable_size, 0)
                                         THEN h.p_offset ELSE 0,
                               n |-> readable_size]))

\* load_segments (elf_parser.rs:82-147): the check of the program header
\* table, then the loop.
LoadSegmentsOf(img, hs) ==
    IF UGt(img.e_phoff + img.e_phnum * img.e_phentsize, img.len)
    THEN [result |-> "ErrPhdrTable", accesses |-> <<>>]
    ELSE LoadSegmentsFrom(img, hs, 0, <<>>)

\* What the raw-pointer read of the program header at index i can give
\* (elf_parser.rs:112-114): the header the slice holds there, or, when the
\* 56 bytes at phdr_offset are not inside the slice, anything.
HeadersRead(img) ==
    {hs \in [1..ParsePhnum -> ParsePhdrs] :
        \A i \in 0..(ParsePhnum - 1) :
            SliceInBounds(img.e_phoff + i * img.e_phentsize, PHDR_SIZE, img.len)
                => hs[i + 1] = img.phdrs[i + 1]}

InitParse ==
    /\ elf_image \in ElfImages
    /\ parse_pc = "new"
    /\ parse_result = "none"
    /\ accesses = <<>>

\* The caller makes the parser (minimal_boot.rs:57, loader.rs:168).
CallElfParserNew ==
    /\ parse_pc = "new"
    /\ parse_result' = ElfParserNewOn(elf_image)
    /\ parse_pc' = IF ElfParserNewOn(elf_image) = "Ok" THEN "load" ELSE "done"
    /\ UNCHANGED <<elf_image, accesses>>
    /\ UNCHANGED notParseVars

\* The caller loads the segments with the parser it got.
CallLoadSegments ==
    /\ parse_pc = "load"
    /\ \E hs \in HeadersRead(elf_image) :
          LET r == LoadSegmentsOf(elf_image, hs)
          IN  /\ parse_result' = r.result
              /\ accesses' = r.accesses
    /\ parse_pc' = "done"
    /\ UNCHANGED elf_image
    /\ UNCHANGED notParseVars

NextParse == CallElfParserNew \/ CallLoadSegments

StartParse == BlkAtRest /\ ElfIdle /\ BootIdle /\ QueueIdle /\ ProbeIdle
                /\ DevInitIdle /\ ErrIdle /\ TrapIdle /\ InitParse

SpecParse == StartParse /\ [][NextParse]_vars

\* The results that are an Err of ElfParser::new or load_segments.
ParseErrors ==
    {"ErrEhdrSize", "ErrPhdrSize", "ErrTooSmall", "ErrMagic", "ErrPhdrTable",
     "ErrPhdr", "ErrPhdrData", "ErrSegmentOffset"}

\* The program header table of img, its end taken without wrapping, lies in
\* the slice.
PhdrTableFits(img) ==
    /\ img.e_phoff >= 0
    /\ img.e_phoff + img.e_phnum * img.e_phentsize <= img.len

\* The image is one the parser is to refuse.
Malformed(img) ==
    \/ img.magic # ELF_MAGIC
    \/ img.ei_class # ELFCLASS64
    \/ img.ei_data # ELFDATA2LSB
    \/ img.e_ehsize # 64
    \/ img.e_phentsize # 56
    \/ ~PhdrTableFits(img)

\* The callback has been handed a slice.
CallbackInvoked == \E k \in 1..Len(accesses) : accesses[k].kind = "segment"

\* C32: an image whose magic is not 7F 'E' 'L' 'F', whose class is not
\* 64-bit, whose data encoding is not little-endian, whose e_ehsize is not
\* 64, whose e_phentsize is not 56 or whose program header table does not fit
\* inside the slice is refused: ElfParser::new or load_segments returns an
\* error and the segment callback is not invoked.
C32_MalformedImageRejected ==
    (parse_pc = "done" /\ Malformed(elf_image))
        => (parse_result \in ParseErrors /\ ~CallbackInvoked)

\* Every access recorded lies inside the slice.
AccessesInside ==
    \A k \in 1..Len(accesses) :
        \/ accesses[k].n = 0
        \/ SliceInBounds(accesses[k].start, accesses[k].n, elf_image.len)

\* C39: for all u64 values of e_phoff, p_offset and p_filesz, also those
\* whose sums wrap, load_segments either returns Err or hands the callback
\* slices that lie inside the input data, and reads nothing outside the
\* slice.
C39_BoundsChecksSurviveOverflow ==
    (parse_pc = "done" /\ ElfParserNewOn(elf_image) = "Ok")
        => /\ parse_result \in ParseErrors \cup {"Ok"}
           /\ AccessesInside

(***************************************************************************)
(* Properties of memory::load_segment as load_segments calls it            *)
(***************************************************************************)

\* h is a PT_LOAD header with a load address below 0x1000.
LowSegment(h) == h.p_type = PT_LOAD /\ h.p_vaddr < LOW_ADDRESS_LIMIT

\* A step that hands a segment below 0x1000 to the loader changes no byte at
\* or after its p_vaddr.
LowSegmentWritesNothing ==
    \A a \in MemAddrs :
        (elf_result = "running" /\ phdr' # phdr /\ LowSegment(phdr')
            /\ a >= phdr'.p_vaddr)
            => mem'[a] = mem[a]

\* C33: a PT_LOAD segment with p_vaddr < 0x1000 is refused with a fatal
\* halt whatever its p_filesz and p_memsz, a segment of zeroes only
\* (p_filesz = 0, p_memsz > 0) included: the load never goes on past it, and
\* no byte at or after p_vaddr is written for it.
C33_LowSegmentRefused ==
    /\ [](~(Loaded /\ LowSegment(phdr)))
    /\ [][LowSegmentWritesNothing]_vars

\* C38: load_segment(dst, src, memsz) writes only addresses in
\* [dst, dst + memsz), also when the file slice is longer than memsz, and
\* leaves every address outside that range unchanged.
C38_WritesWithinMemsz ==
    [][\A a \in MemAddrs :
          (elf_result = "running" /\ mem'[a] # mem[a])
              => /\ phdr'.p_type = PT_LOAD
                 /\ phdr'.p_vaddr <= a
                 /\ a < phdr'.p_vaddr + phdr'.p_memsz]_vars

(***************************************************************************)
(* trap_handler (trap/handler.rs).  A 64-bit mcause is kept as its three   *)
(* bit fields: bit 63 (interrupt), bits 31..62 and bits 0..30.  An u64     *)
(* register value is in two's complement as above: 2^64 - 1 is -1 and      *)
(* mepc + 4 is integer addition.  The trap vector that calls trap_handler, *)
(* writes the value it returns to mepc and executes mret is in entry.S.    *)
(***************************************************************************)
EXT_BASE_CODE == 0                \* handler.rs:57, the id the base arm matches
EXT_CONSOLE == 1                  \* handler.rs:60
EXT_BASE == 16                    \* 0x10, the base extension of the specification
EXT_SRST == 1397904212            \* 0x53525354, handler.rs:63
EXT_TIME == 1414089029            \* 0x54494D45, handler.rs:67
EXT_BIND == 1145981250            \* 0x444E4942, handler.rs:70
EXT_OTHER == 2                    \* an id no arm matches
SBI_SPEC_VERSION == 2             \* handler.rs:118
SBI_IMPL_ID == 1381192514         \* 0x52535342, handler.rs:122
SBI_IMPL_VERSION == 1             \* handler.rs:125
CAUSE_S_ECALL == 9                \* handler.rs:41
CAUSE_M_ECALL == 11               \* handler.rs:44
CAUSE_INSN_FAULT == 1             \* handler.rs:166
CAUSE_LOAD_FAULT == 5             \* a cause no arm matches
MaxFunctionId == 3                \* function ids 0 .. MaxFunctionId in a6

\* mcause values: every combination of bit 63, of a set bit among 31..62 and
\* of four cause codes.
Mcauses ==
    [bit63 : {0, 1}, bits31_62 : {0, 1},
     bits0_30 : {CAUSE_INSN_FAULT, CAUSE_LOAD_FAULT, CAUSE_S_ECALL, CAUSE_M_ECALL}]

\* mcause & 0x7FFF_FFFF (handler.rs:40, 166): bits 31..63 cleared.
Mask31(mcause) == [bit63 |-> 0, bits31_62 |-> 0, bits0_30 |-> mcause.bits0_30]

\* The u64 value n below 2^31 as bit fields.
Small(n) == [bit63 |-> 0, bits31_62 |-> 0, bits0_30 |-> n]

\* The registers at a trap: the saved pc at a kernel address or at 2^64 - 4,
\* a character with and without bits above the low byte in a0.
TrapRegs ==
    [mcause : Mcauses,
     mepc : {KernelAddr, 0 - 4},
     a0 : {65, 256 + 66},
     a1 : {0},
     a6 : 0..MaxFunctionId,
     a7 : {EXT_BASE_CODE, EXT_CONSOLE, EXT_BASE, EXT_SRST, EXT_TIME, EXT_BIND,
           EXT_OTHER}]

\* (error, value) of an SBI function that is not supported.
NotSupported == [error |-> U64_MAX, value |-> 0, uart |-> <<>>]

\* handle_base_extension (handler.rs:113-131).
handle_base_extension(function_id, arg0, arg1) ==
    IF function_id = 0 THEN [error |-> 0, value |-> SBI_SPEC_VERSION, uart |-> <<>>]
    ELSE IF function_id = 1 THEN [error |-> 0, value |-> SBI_IMPL_ID, uart |-> <<>>]
    ELSE IF function_id = 2 THEN [error |-> 0, value |-> SBI_IMPL_VERSION, uart |-> <<>>]
    ELSE NotSupported

\* handle_console_extension (handler.rs:96-110): function 0 prints the low
\* byte of arg0, function 1 reports that there is no input.
handle_console_extension(function_id, arg0, arg1) ==
    IF function_id = 0 THEN [error |-> 0, value |-> 0, uart |-> <<arg0 % 256>>]
    ELSE IF function_id = 1 THEN [error |-> 0, value |-> U64_MAX, uart |-> <<>>]
    ELSE NotSupported

\* handle_timer_extension (handler.rs:134-145).
handle_timer_extension(function_id, arg0, arg1) ==
    IF function_id = 0 THEN [error |-> 0, value |-> 0, uart |-> <<>>]
    ELSE NotSupported

\* handle_vendor_extension (handler.rs:148-151).
handle_vendor_extension(function_id, arg0, arg1) == NotSupported

\* handle_sbi_call_direct, the default arm of the match (handler.rs:73-78).
unknown_extension(extension_id) == NotSupported

\* What trap_handler did when it does not return: shutdown() (handler.rs:176-189).
Shutdown(path, ext) ==
    [returns |-> FALSE, path |-> path, ext |-> ext, sets_regs |-> FALSE,
     error |-> 0, value |-> 0, ret |-> 0, uart |-> <<>>]

\* handle_sbi_call_direct (handler.rs:54-93): the extension function, a0 and
\* a1 set to its error and value, mepc + 4 returned.
handle_sbi_call_direct(extension_id, function_id, arg0, arg1, mepc) ==
    LET ext == IF extension_id = EXT_BASE_CODE THEN "base"
               ELSE IF extension_id = EXT_CONSOLE THEN "console"
               ELSE IF extension_id = EXT_SRST THEN "srst"
               ELSE IF extension_id = EXT_TIME THEN "timer"
               ELSE IF extension_id = EXT_BIND THEN "vendor"
               ELSE "unknown"
        r == IF ext = "base" THEN handle_base_extension(function_id, arg0, arg1)
             ELSE IF ext = "console"
             THEN handle_console_extension(function_id, arg0, arg1)
             ELSE IF ext = "timer"
             THEN handle_timer_extension(function_id, arg0, arg1)
             ELSE IF ext = "vendor"
             THEN handle_vendor_extension(function_id, arg0, arg1)
             ELSE unknown_extension(extension_id)
    IN  IF ext = "srst"
        THEN Shutdown("sbi", ext)
        ELSE [returns |-> TRUE, path |-> "sbi", ext |-> ext, sets_regs |-> TRUE,
              error |-> r.error, value |-> r.value, ret |-> mepc + 4,
              uart |-> r.uart]

\* handle_mmode_ecall_direct (handler.rs:154-157).
handle_mmode_ecall_direct(mepc) ==
    [returns |-> TRUE, path |-> "mmode", ext |-> "none", sets_regs |-> FALSE,
     error |-> 0, value |-> 0, ret |-> mepc + 4, uart |-> <<>>]

\* handle_unknown_trap_direct (handler.rs:160-174).
handle_unknown_trap_direct(mcause, mepc) ==
    IF Mask31(mcause) = Small(CAUSE_INSN_FAULT)
    THEN [returns |-> TRUE, path |-> "unknown", ext |-> "none",
          sets_regs |-> FALSE, error |-> 0, value |-> 0, ret |-> mepc + 4,
          uart |-> <<>>]
    ELSE Shutdown("unknown", "none")

\* trap_handler (handler.rs:9-51).
trap_handler(r) ==
    IF Mask31(r.mcause) = Small(CAUSE_S_ECALL)
    THEN handle_sbi_call_direct(r.a7, r.a6, r.a0, r.a1, r.mepc)
    ELSE IF Mask31(r.mcause) = Small(CAUSE_M_ECALL)
    THEN handle_mmode_ecall_direct(r.mepc)
    ELSE handle_unknown_trap_direct(r.mcause, r.mepc)

\* The hart traps into machine mode.
InitTrap ==
    /\ trap_pc = "trapped"
    /\ trap_regs \in TrapRegs
    /\ trap_done = <<>>
    /\ s_hart = <<>>

\* Register a0 when trap_handler returns.  The function returns its u64
\* result in a0, the register the asm block of handle_sbi_call_direct has
\* written the error to without declaring it (handler.rs:82-92), which is
\* undefined behaviour: either the result mepc + 4 is placed in a0 after the
\* block and replaces the error, or it was placed there before the block and
\* the error replaces it.
A0AtReturn(done) ==
    IF done.sets_regs THEN {done.ret, done.error} ELSE {done.ret}

\* The trap vector calls trap_handler.
TrapHandler ==
    /\ trap_pc = "trapped"
    /\ LET done == trap_handler(trap_regs)
       IN  /\ \E v \in A0AtReturn(done) :
                 trap_done' = [path |-> done.path, ext |-> done.ext,
                               error |-> done.error, value |-> done.value,
                               uart |-> done.uart, a0 |-> v,
                               a1 |-> IF done.sets_regs THEN done.value
                                      ELSE trap_regs.a1]
           /\ trap_pc' = IF done.returns THEN "handled" ELSE "shutdown"
    /\ UNCHANGED <<trap_regs, s_hart>>
    /\ UNCHANGED notTrapVars

\* The trap vector after trap_handler has returned: the value returned, which
\* is in a0, goes to mepc, and mret resumes there with a0 and a1 as
\* trap_handler left them.
TrapReturn ==
    /\ trap_pc = "handled"
    /\ s_hart' = [pc |-> trap_done.a0, a0 |-> trap_done.a0, a1 |-> trap_done.a1]
    /\ trap_pc' = "resumed"
    /\ UNCHANGED <<trap_regs, trap_done>>
    /\ UNCHANGED notTrapVars

NextTrap == TrapHandler \/ TrapReturn

StartTrap == BlkAtRest /\ ElfIdle /\ BootIdle /\ QueueIdle /\ ProbeIdle
               /\ DevInitIdle /\ ErrIdle /\ ParseIdle /\ InitTrap

SpecTrap == StartTrap /\ [][NextTrap]_vars


(***************************************************************************)
(* Properties of the trap handler                                          *)
(***************************************************************************)

\* The trap is an environment call from S-mode: mcause is exactly 9.
IsSEcall == trap_regs.mcause = Small(CAUSE_S_ECALL)

\* The extension ids handle_sbi_call_direct has an arm for.
DispatchedExtensions == {EXT_BASE_CODE, EXT_CONSOLE, EXT_SRST, EXT_TIME, EXT_BIND}

\* trap_handler has run.
Handled == trap_pc \in {"handled", "resumed", "shutdown"}

\* C34: for a supervisor-mode ecall whose extension id in a7 is none of the
\* extensions the handler implements, the caller gets a non-zero error in
\* a0; and every supervisor-mode ecall other than system reset returns, and
\* resumes at the saved program counter plus 4.
C34_UnknownExtensionNotSupported ==
    IsSEcall =>
        /\ (trap_pc = "shutdown") => trap_regs.a7 = EXT_SRST
        /\ (trap_pc = "resumed") =>
              /\ s_hart.pc = trap_regs.mepc + 4
              /\ trap_regs.a7 \notin DispatchedExtensions => s_hart.a0 # 0

\* C35: a supervisor-mode ecall with a7 = 0x10 is dispatched to the base
\* extension and answers the spec-version, implementation-id and
\* implementation-version queries with error code 0; a7 = 0x01 is console
\* put-char, a7 = 0x54494D45 the timer, and a7 = 0x53525354 system reset,
\* which enters the shutdown loop and does not return.
C35_ExtensionDispatch ==
    (IsSEcall /\ Handled) =>
        /\ trap_regs.a7 = EXT_BASE =>
              /\ trap_done.ext = "base"
              /\ trap_regs.a6 \in 0..2 => trap_done.error = 0
        /\ trap_regs.a7 = EXT_CONSOLE => trap_done.ext = "console"
        /\ trap_regs.a7 = EXT_TIME => trap_done.ext = "timer"
        /\ trap_regs.a7 = EXT_SRST => trap_pc = "shutdown"

\* C40: a trap whose mcause is an interrupt (bit 63 set) with cause code 9,
\* or has any of bits 31..62 set, is not dispatched as an ecall: no SBI
\* function runs and mepc is not advanced as for an ecall.
C40_OnlySEcallDispatched ==
    (Handled /\ (\/ trap_regs.mcause.bit63 = 1
                    /\ trap_regs.mcause.bits0_30 = CAUSE_S_ECALL
                 \/ trap_regs.mcause.bits31_62 = 1))
        => /\ trap_done.path # "sbi"
           /\ trap_done.ext = "none"


(***************************************************************************)
(* Which request a completion accepted by read_block_real belongs to       *)
(***************************************************************************)

\* The used element read_block_real takes as the completion of its request:
\* the first of the new elements whose id is head (device.rs:584-590).
AcceptedElem ==
    LET n == Sub16(used.idx, last_used_idx)
        i == CHOOSE k \in 0..(n - 1) :
                /\ used.ring[Add16(last_used_idx, k) % queue_size].id = head
                /\ \A j \in 0..(k - 1) :
                      used.ring[Add16(last_used_idx, j) % queue_size].id # head
    IN  used.ring[Add16(last_used_idx, i) % queue_size]

\* C36: whenever read_block(s, buf) returns Ok, the used element it consumed
\* answers the request submitted last, in that call and attempt, with the
\* header naming sector s: the late completion of a request of an earlier
\* attempt or of an earlier call is never taken for it.
C36_NoStaleCompletionAccepted ==
    [][(pc = "ring" /\ pc' = "idle" /\ result' = "Ok")
          => AcceptedElem.pub = 1]_vars


(***************************************************************************)
(* The values initialize writes to STATUS                                  *)
(***************************************************************************)

\* Every status bit of the value a is also in the value b.
BitsKept(a, b) == \A bit \in StatusBits : HasBit(a, bit) => HasBit(b, bit)

\* C37: during initialize, after the reset write every value written to
\* STATUS contains all status bits written before it; when initialized
\* becomes true, the last value written to STATUS contains ACKNOWLEDGE,
\* DRIVER and DRIVER_OK.
C37_StatusBitsAccumulate ==
    /\ \A i, j \in W(VIRTIO_STATUS) : i < j => BitsKept(mmio[i].val, mmio[j].val)
    /\ initialized =>
          LET last == mmio[SetMax(W(VIRTIO_STATUS))].val
          IN  /\ HasBit(last, VIRTIO_STATUS_ACKNOWLEDGE)
              /\ HasBit(last, VIRTIO_STATUS_DRIVER)
              /\ HasBit(last, VIRTIO_STATUS_DRIVER_OK)

====
